---- MODULE Spec2Model ----
(***************************************************************************)
(* State-machine model of amplifier-module-hooks-cxdb-events:              *)
(*   EventBuffer   (buffer.py)   the bounded retry buffer                  *)
(*   CXDBTcpClient (protocol.py) the connection state of the TCP client    *)
(*   TurnAccumulator (turns.py), VariantDeduplicator (types.py)            *)
(*   CXDBEventHook (hook.py)     the event router                          *)
(*                                                                         *)
(* Two specifications share the variables:                                 *)
(*   SpecBuffer  an EventBuffer driven directly by enqueue / flush / clear *)
(*   Spec        a CXDBEventHook driven by handle_event and cleanup, every *)
(*               await of a store RPC being one step with its outcome      *)
(***************************************************************************)
EXTENDS Integers, Sequences, FiniteSets, TLC

VARIABLES
    buffer,       \* EventBuffer: _buffer, _max_size and the three counters
    enqLog,       \* history: every item passed to enqueue, in call order
    sentLog,      \* history: every item for which send_fn returned normally
    evictLog,     \* history: every item dropped by an enqueue at capacity
    clearLog,     \* history: every item removed by clear
    bufOp,        \* history: the last EventBuffer operation and its result
    connected,    \* CXDBTcpClient._connected
    initialized,  \* CXDBEventHook._initialized
    registry_published,     \* CXDBEventHook._registry_published
    turns_context_id,       \* CXDBEventHook._turns_context_id (None = 0)
    everything_context_id,  \* CXDBEventHook._everything_context_id (None = 0)
    acc,          \* TurnAccumulator: _current and _execution_ended
    known_events, \* the event names given to VariantDeduplicator
    pc,           \* where the running coroutine of the hook is suspended
    cur,          \* the call in progress: event, data, records still to write
    store,        \* the store: contexts created and the turns it acknowledged
    hist          \* history of the router's calls and write attempts

bufVars == <<buffer, enqLog, sentLog, evictLog, clearLog, bufOp>>
hookVars == <<connected, initialized, registry_published, turns_context_id,
              everything_context_id, acc, known_events, pc, cur, store, hist>>
vars == <<buffer, enqLog, sentLog, evictLog, clearLog, bufOp,
          connected, initialized, registry_published, turns_context_id,
          everything_context_id, acc, known_events, pc, cur, store, hist>>

None == 0

Min(a, b) == IF a < b THEN a ELSE b
Max(a, b) == IF a > b THEN a ELSE b

\* ---------------------------------------------------------------- bounds
MaxCapacity == 3        \* SpecBuffer: capacities 0..MaxCapacity are tried
MaxEnqueues == 4        \* SpecBuffer: enqueue calls per behaviour
MaxFlushes == 2         \* SpecBuffer: flush calls per behaviour
MaxClears == 1          \* SpecBuffer: clear calls per behaviour

\* ------------------------------------------------------------ EventBuffer
\* EventBuffer.__init__: an empty deque(maxlen=max_size), counters at zero.
EventBuffer(max_size) ==
    [items |-> <<>>, max_size |-> max_size, overflow_count |-> 0,
     total_enqueued |-> 0, total_sent |-> 0]

\* One buffered item, the tuple enqueue stores.
BufferedRecord(context_id, payload, declared_type_id, declared_type_version) ==
    [context_id |-> context_id, payload |-> payload,
     declared_type_id |-> declared_type_id,
     declared_type_version |-> declared_type_version]

size(b) == Len(b.items)

\* deque.append on a deque with maxlen: at capacity the leftmost item is
\* discarded; a deque of maxlen 0 stays empty.
DequeAppendKeepOldest(items, maxlen, x) ==
    IF Len(items) < maxlen THEN Append(items, x) ELSE items

DequeAppend(items, maxlen, x) ==
    IF maxlen = 0 THEN <<>>
    ELSE IF Len(items) < maxlen THEN Append(items, x)
    ELSE Append(Tail(items), x)

\* What the append of enqueue discards (nothing below capacity).
DequeDropped(items, maxlen, x) ==
    IF maxlen = 0 THEN <<x>>
    ELSE IF Len(items) < maxlen THEN <<>>
    ELSE <<Head(items)>>

enqueue_without_overflow_count(b, item) ==
    [b EXCEPT !.items = DequeAppend(b.items, b.max_size, item),
              !.total_enqueued = @ + 1]

\* EventBuffer.enqueue
enqueue(b, item) ==
    LET was_full == Len(b.items) = b.max_size
    IN  [b EXCEPT !.items = DequeAppend(b.items, b.max_size, item),
                  !.total_enqueued = @ + 1,
                  !.overflow_count = IF was_full THEN @ + 1 ELSE @]

\* One iteration of the while loop of flush: send_fn(self._buffer[0]) was
\* awaited and either returned (ok) or raised.
FlushIterationDropFailed(b, ok) ==
    IF ok THEN [b EXCEPT !.items = Tail(@), !.total_sent = @ + 1]
    ELSE [b EXCEPT !.items = Tail(@)]

FlushIteration(b, ok) ==
    IF ok THEN [b EXCEPT !.items = Tail(@), !.total_sent = @ + 1] ELSE b

\* The item flush hands to send_fn: self._buffer[0].
FlushPeekNewest(b) == b.items[Len(b.items)]

FlushPeek(b) == Head(b.items)

\* EventBuffer.flush(send_fn), where send_fn raises on its failAt-th call
\* (0: it never raises). Result: the buffer, the return value, the items
\* send_fn accepted in order, and whether an exception left flush.
RECURSIVE FlushLoop(_, _, _, _)
FlushLoop(b, failAt, sent, accepted) ==
    IF b.items = <<>>
    THEN [buffer |-> b, sent |-> sent, accepted |-> accepted, raised |-> FALSE]
    ELSE IF failAt = sent + 1
    THEN [buffer |-> FlushIteration(b, FALSE), sent |-> sent,
          accepted |-> accepted, raised |-> FALSE]
    ELSE FlushLoop(FlushIteration(b, TRUE), failAt, sent + 1,
                   Append(accepted, FlushPeek(b)))

flush(b, failAt) == FlushLoop(b, failAt, 0, <<>>)

\* EventBuffer.clear
ClearResettingCounters(b) == EventBuffer(b.max_size)

clear(b) == [b EXCEPT !.items = <<>>]

\* ------------------------------------------------- SpecBuffer: the driver
\* (context_id, declared_type_version) of the enqueue calls that are tried
EnqueueInputs == {<<1, 1>>, <<2, 3>>}

NoOp == [op |-> "init", before |-> EventBuffer(0), failAt |-> 0, ret |-> 0,
         accepted |-> <<>>, raised |-> FALSE, nFlush |-> 0, nClear |-> 0]

\* enqueue(context_id, payload, type_id, type_version); the payload is the
\* number of the call, so that every enqueued record is distinguishable.
BufEnqueue(context_id, type_version) ==
    /\ Len(enqLog) < MaxEnqueues
    /\ LET item == BufferedRecord(context_id, Len(enqLog) + 1, "t", type_version)
       IN  /\ buffer' = enqueue(buffer, item)
           /\ enqLog' = Append(enqLog, item)
           /\ evictLog' = evictLog \o DequeDropped(buffer.items, buffer.max_size, item)
           /\ bufOp' = [bufOp EXCEPT !.op = "enqueue", !.before = buffer,
                                     !.failAt = 0, !.ret = 0, !.accepted = <<>>,
                                     !.raised = FALSE]
    /\ UNCHANGED <<sentLog, clearLog>>
    /\ UNCHANGED hookVars

\* await flush(send_fn) with a send_fn that raises on its failAt-th call.
BufFlush(failAt) ==
    /\ bufOp.nFlush < MaxFlushes
    /\ failAt <= size(buffer)
    /\ LET r == flush(buffer, failAt)
       IN  /\ buffer' = r.buffer
           /\ sentLog' = sentLog \o r.accepted
           /\ bufOp' = [bufOp EXCEPT !.op = "flush", !.before = buffer,
                                     !.failAt = failAt, !.ret = r.sent,
                                     !.accepted = r.accepted,
                                     !.raised = r.raised, !.nFlush = @ + 1]
    /\ UNCHANGED <<enqLog, evictLog, clearLog>>
    /\ UNCHANGED hookVars

BufClear ==
    /\ bufOp.nClear < MaxClears
    /\ buffer' = clear(buffer)
    /\ clearLog' = clearLog \o buffer.items
    /\ bufOp' = [bufOp EXCEPT !.op = "clear", !.before = buffer, !.failAt = 0,
                              !.ret = 0, !.accepted = <<>>, !.raised = FALSE,
                              !.nClear = @ + 1]
    /\ UNCHANGED <<enqLog, sentLog, evictLog>>
    /\ UNCHANGED hookVars

\* ------------------------------------------------------------ event names
\* An event name "ns:stem[:variant]" is the record of its parts, so that
\* endswith and startswith are computed, not tabulated.
EventName(ns, stem, suffix) == [ns |-> ns, stem |-> stem, suffix |-> suffix]

endswith(event_name, suffix) == event_name.suffix = suffix
startswith_ns(event_name, ns) == event_name.ns = ns

PROMPT_SUBMIT == EventName("prompt", "submit", "")
CONTENT_BLOCK_END == EventName("content_block", "end", "")
TOOL_PRE == EventName("tool", "pre", "")
TOOL_POST == EventName("tool", "post", "")
PROVIDER_REQUEST == EventName("provider", "request", "")
PROVIDER_RESPONSE == EventName("provider", "response", "")
ORCHESTRATOR_COMPLETE == EventName("orchestrator", "complete", "")
EXECUTION_END == EventName("execution", "end", "")
LLM_REQUEST == EventName("llm", "request", "")
LLM_REQUEST_DEBUG == EventName("llm", "request", ":debug")
LLM_REQUEST_RAW == EventName("llm", "request", ":raw")

\* hook.py _TURN_EVENTS
TURN_EVENTS == {PROMPT_SUBMIT, CONTENT_BLOCK_END, TOOL_PRE, TOOL_POST,
                PROVIDER_REQUEST, PROVIDER_RESPONSE, ORCHESTRATOR_COMPLETE,
                EXECUTION_END}

\* types.py _VARIANT_SUFFIXES and _EVENTS_WITH_VARIANTS
VARIANT_SUFFIXES == <<":raw", ":debug">>
EVENTS_WITH_VARIANTS == {EventName("session", "start", ""),
                         EventName("session", "fork", ""),
                         EventName("session", "resume", ""),
                         EventName("llm", "request", ""),
                         EventName("llm", "response", "")}

\* ---------------------------------------------------- VariantDeduplicator
get_base_event(event_name) ==
    IF \E i \in 1..Len(VARIANT_SUFFIXES) : endswith(event_name, VARIANT_SUFFIXES[i])
    THEN [event_name EXCEPT !.suffix = ""]
    ELSE event_name

has_variants(event_name) == get_base_event(event_name) \in EVENTS_WITH_VARIANTS

variant_rank(event_name) ==
    IF endswith(event_name, ":raw") THEN 2
    ELSE IF endswith(event_name, ":debug") THEN 1
    ELSE 0

\* _build_variant_map: the richest known name of each family. The ranks of
\* one family's names are distinct, so the scan order does not matter.
best_variant(events) ==
    [base \in {get_base_event(e) : e \in {x \in events : has_variants(x)}} |->
        CHOOSE e \in events :
            /\ get_base_event(e) = base
            /\ \A f \in events :
                 get_base_event(f) = base => variant_rank(f) <= variant_rank(e)]

should_process_all(events, event_name) == TRUE

should_process_registered(events, event_name) ==
    IF ~has_variants(event_name) THEN TRUE
    ELSE IF \A e \in events : get_base_event(e) # get_base_event(event_name)
    THEN TRUE
    ELSE event_name \in events

should_process(events, event_name) ==
    IF ~has_variants(event_name) THEN TRUE
    ELSE LET base == get_base_event(event_name)
             best == best_variant(events)
         IN  IF base \notin DOMAIN best THEN TRUE
             ELSE event_name = best[base]

\* -------------------------------------------------------- TurnAccumulator
\* A missing or None string is Null; a text is the sequence of its pieces,
\* so that "".join(blocks) is a concatenation.
Null == "<None>"

Get(data, key) == IF key \in DOMAIN data THEN data[key] ELSE Null

AccumulatedTurn == [user_prompt |-> Null, assistant_text_blocks |-> <<>>,
                    tool_calls |-> <<>>, metrics |-> <<>>]

\* TurnAccumulator.__init__
TurnAccumulator == [current |-> AccumulatedTurn, execution_ended |-> FALSE,
                    request_start |-> FALSE]

ToolCallRecord(tool_name, call_id) ==
    [tool_name |-> tool_name, call_id |-> call_id, has_result |-> FALSE,
     result |-> Null, error |-> Null]

on_prompt_submit(a, data) ==
    LET prompt == Get(data, "prompt")
    IN  IF prompt # Null
        THEN [a EXCEPT !.current.user_prompt = prompt,
                       !.execution_ended = FALSE]
        ELSE a

on_tool_pre(a, data) ==
    LET tool_name == IF "tool_name" \in DOMAIN data THEN data.tool_name
                     ELSE "unknown"
        call_id == IF Get(data, "tool_call_id") # Null
                   THEN data.tool_call_id ELSE Get(data, "call_id")
    IN  [a EXCEPT !.current.tool_calls = Append(@, ToolCallRecord(tool_name, call_id))]

\* The last of the indices hits of matching records, 0 if there is none: the
\* loops over reversed(self._current.tool_calls).
LastIndex(hits) ==
    IF hits = {} THEN 0 ELSE CHOOSE i \in hits : \A j \in hits : j <= i

Complete(record, data) ==
    [record EXCEPT !.has_result = TRUE,
                   !.result = IF Get(data, "result") # Null THEN data.result ELSE @,
                   !.error = IF Get(data, "error") # Null THEN data.error ELSE @]

on_tool_post(a, data) ==
    LET tool_name == IF "tool_name" \in DOMAIN data THEN data.tool_name
                     ELSE "unknown"
        call_id == IF Get(data, "tool_call_id") # Null
                   THEN data.tool_call_id ELSE Get(data, "call_id")
        calls == a.current.tool_calls
        ById(r) == r.call_id = call_id /\ ~r.has_result
        ByName(r) == r.tool_name = tool_name /\ ~r.has_result
        i == IF call_id # Null
             THEN LastIndex({k \in 1..Len(calls) : ById(calls[k])}) ELSE 0
        j == IF i # 0 THEN i
             ELSE LastIndex({k \in 1..Len(calls) : ByName(calls[k])})
    IN  IF j = 0 THEN a
        ELSE [a EXCEPT !.current.tool_calls[j] = Complete(calls[j], data)]

\* data["block_type"] = "text", data["block"] = the text (the top-level
\* layout; the nested layout is not among the modelled inputs).
on_content_block_end(a, data) ==
    LET block == Get(data, "block")
        block_type == Get(data, "block_type")
    IN  IF block_type # "text" THEN a
        ELSE IF block = Null \/ block = "" THEN a
        ELSE [a EXCEPT !.current.assistant_text_blocks = Append(@, <<block>>)]

on_provider_request(a, data) == [a EXCEPT !.request_start = TRUE]

\* usage.get(...) raises AttributeError when usage is truthy and not a dict.
on_provider_response_raises(data) ==
    "usage" \in DOMAIN data /\ data.usage.type # "dict"

\* A token field whose value is None.
NoTokens == -1

\* usage.get(key, 0) or 0: 0 when the field is absent, None or 0.
TokenCount(usage, key) ==
    IF key \notin DOMAIN usage THEN 0
    ELSE IF usage[key] = NoTokens THEN 0
    ELSE usage[key]

\* "if not usage: return": the event has no usage or an empty one (of the
\* usage record, type is the kind of Python value, not a key).
no_usage(data) == "usage" \notin DOMAIN data \/ DOMAIN data.usage = {"type"}

on_provider_response_without_cache(a, data) ==
    IF no_usage(data) THEN a
    ELSE LET usage == data.usage
             input_tokens == TokenCount(usage, "input_tokens")
             output_tokens == TokenCount(usage, "output_tokens")
         IN  [a EXCEPT !.current.metrics =
                          <<[input_tokens |-> input_tokens,
                             cache_read_input_tokens |->
                                 TokenCount(usage, "cache_read_input_tokens"),
                             cache_creation_input_tokens |->
                                 TokenCount(usage, "cache_creation_input_tokens"),
                             total_input_tokens |-> input_tokens,
                             output_tokens |-> output_tokens,
                             total_tokens |-> input_tokens + output_tokens,
                             has_duration |-> a.request_start]>>,
                       !.request_start = FALSE]

on_provider_response(a, data) ==
    IF no_usage(data) THEN a
    ELSE LET usage == data.usage
             input_tokens == TokenCount(usage, "input_tokens")
             cache_read == TokenCount(usage, "cache_read_input_tokens")
             cache_creation == TokenCount(usage, "cache_creation_input_tokens")
             total_input == input_tokens + cache_read + cache_creation
             output_tokens == TokenCount(usage, "output_tokens")
         IN  [a EXCEPT !.current.metrics =
                          <<[input_tokens |-> input_tokens,
                             cache_read_input_tokens |-> cache_read,
                             cache_creation_input_tokens |-> cache_creation,
                             total_input_tokens |-> total_input,
                             output_tokens |-> output_tokens,
                             total_tokens |-> total_input + output_tokens,
                             has_duration |-> a.request_start]>>,
                       !.request_start = FALSE]

on_execution_end(a) == [a EXCEPT !.execution_ended = TRUE]

is_straggler_any_namespace(a, event_name) == a.execution_ended

is_straggler(a, event_name) ==
    IF ~a.execution_ended THEN FALSE ELSE startswith_ns(event_name, "llm")

has_data_without_tool_calls(turn) ==
    \/ turn.user_prompt # Null
    \/ turn.assistant_text_blocks # <<>>

has_data(turn) ==
    \/ turn.user_prompt # Null
    \/ turn.assistant_text_blocks # <<>>
    \/ turn.tool_calls # <<>>

\* TurnAccumulator.flush: the turn (<<>> for None) and the reset accumulator.
acc_flush(a) ==
    [turn |-> IF has_data(a.current) THEN <<a.current>> ELSE <<>>,
     acc |-> TurnAccumulator]

RECURSIVE Join(_)
Join(blocks) == IF blocks = <<>> THEN <<>> ELSE Head(blocks) \o Join(Tail(blocks))

to_conversation_items_assistant_first(turn, timestamp_ms) ==
    LET user_item == (1 :> "user_input") @@ (2 :> "complete") @@
                     (3 :> timestamp_ms) @@ (10 :> <<turn.user_prompt>>)
        assistant_item == (1 :> "assistant_turn") @@ (2 :> "complete") @@
                          (3 :> timestamp_ms) @@
                          (11 :> [text |-> Join(turn.assistant_text_blocks),
                                  tool_calls |-> turn.tool_calls,
                                  metrics |-> turn.metrics])
        has_assistant_data == turn.assistant_text_blocks # <<>> \/ turn.tool_calls # <<>>
    IN  (IF has_assistant_data THEN <<assistant_item>> ELSE <<>>)
        \o (IF turn.user_prompt # Null THEN <<user_item>> ELSE <<>>)

\* to_conversation_items: the payloads, maps from tag to value.
to_conversation_items(turn, timestamp_ms) ==
    LET user_item == (1 :> "user_input") @@ (2 :> "complete") @@
                     (3 :> timestamp_ms) @@ (10 :> <<turn.user_prompt>>)
        assistant_item == (1 :> "assistant_turn") @@ (2 :> "complete") @@
                          (3 :> timestamp_ms) @@
                          (11 :> [text |-> Join(turn.assistant_text_blocks),
                                  tool_calls |-> turn.tool_calls,
                                  metrics |-> turn.metrics])
        has_assistant_data == turn.assistant_text_blocks # <<>> \/ turn.tool_calls # <<>>
    IN  (IF turn.user_prompt # Null THEN <<user_item>> ELSE <<>>)
        \o (IF has_assistant_data THEN <<assistant_item>> ELSE <<>>)

\* ----------------------------------------------------------- serialization
\* serialize_envelope / serialize_payload: msgpack of the mapping with its
\* tags in ascending order, here the sequence of <<tag, value>> pairs.
RECURSIVE SortedPairs(_, _)
SortedPairs(payload, tags) ==
    IF tags = {} THEN <<>>
    ELSE LET t == CHOOSE x \in tags : \A y \in tags : x <= y
         IN  <<<<t, payload[t]>>>> \o SortedPairs(payload, tags \ {t})

serialize_envelope(payload) == SortedPairs(payload, DOMAIN payload)

\* msgpack.unpackb(payload_bytes, raw=False, strict_map_key=False)
unpackb(bytes) ==
    [t \in {bytes[i][1] : i \in 1..Len(bytes)} |->
        bytes[CHOOSE i \in 1..Len(bytes) : bytes[i][1] = t][2]]

\* ------------------------------------------------------------ wire frames
\* Bytes are the numbers 0..255, byte strings their sequences.
FRAME_HEADER_SIZE == 16

\* struct.pack of one unsigned little-endian field of width bytes.
RECURSIVE PackLE(_, _)
PackLE(n, width) ==
    IF width = 0 THEN <<>> ELSE <<n % 256>> \o PackLE(n \div 256, width - 1)

\* struct.unpack of one unsigned little-endian field.
RECURSIVE UnpackLE(_)
UnpackLE(bytes) ==
    IF bytes = <<>> THEN 0 ELSE Head(bytes) + 256 * UnpackLE(Tail(bytes))

\* encode_frame: "<IHHQ" header (len, msg_type, flags, req_id) + payload
encode_frame(msg_type, request_id, payload, flags) ==
    PackLE(Len(payload), 4) \o PackLE(msg_type, 2) \o PackLE(flags, 2)
    \o PackLE(request_id, 8) \o payload

decode_frame_without_length_check(data) ==
    IF Len(data) < FRAME_HEADER_SIZE
    THEN [raised |-> TRUE, value |-> <<>>]
    ELSE LET payload_len == UnpackLE(SubSeq(data, 1, 4))
         IN  [raised |-> FALSE,
              value |-> <<UnpackLE(SubSeq(data, 5, 6)),
                          UnpackLE(SubSeq(data, 7, 8)),
                          UnpackLE(SubSeq(data, 9, 16)),
                          SubSeq(data, FRAME_HEADER_SIZE + 1,
                                 Min(Len(data), FRAME_HEADER_SIZE + payload_len))>>]

\* decode_frame: (msg_type, flags, request_id, payload), or ValueError
decode_frame(data) ==
    IF Len(data) < FRAME_HEADER_SIZE
    THEN [raised |-> TRUE, value |-> <<>>]
    ELSE LET payload_len == UnpackLE(SubSeq(data, 1, 4))
             msg_type == UnpackLE(SubSeq(data, 5, 6))
             flags == UnpackLE(SubSeq(data, 7, 8))
             request_id == UnpackLE(SubSeq(data, 9, 16))
             payload == SubSeq(data, FRAME_HEADER_SIZE + 1,
                               Min(Len(data), FRAME_HEADER_SIZE + payload_len))
         IN  IF Len(payload) < payload_len
             THEN [raised |-> TRUE, value |-> <<>>]
             ELSE [raised |-> FALSE,
                   value |-> <<msg_type, flags, request_id, payload>>]

\* ---------------------------------------------------------- CXDBTcpClient
\* What the store does with one request: "ok" a well-formed reply, "short" a
\* reply too short for the fixed fields, "error" an error frame, "timeout" no
\* reply within the timeout, "lost" the connection breaks (IncompleteRead or
\* OSError). "refused": the socket cannot be opened (connect only).
RpcOutcomes == {"ok", "lost", "timeout", "error", "short"}
ConnectOutcomes == RpcOutcomes \cup {"refused"}

\* _send_and_recv: the exception it raises and self._connected afterwards.
send_and_recv_keeps_connected(conn, o) ==
    CASE o \in {"ok", "short"} -> [connected |-> conn, exc |-> "none"]
      [] o = "error" -> [connected |-> conn, exc |-> "CXDBProtocolError"]
      [] o = "timeout" -> [connected |-> conn, exc |-> "ConnectionError"]
      [] o = "lost" -> [connected |-> conn, exc |-> "ConnectionError"]

send_and_recv(conn, o) ==
    CASE o \in {"ok", "short"} -> [connected |-> conn, exc |-> "none"]
      [] o = "error" -> [connected |-> conn, exc |-> "CXDBProtocolError"]
      [] o = "timeout" -> [connected |-> conn, exc |-> "ConnectionError"]
      [] o = "lost" -> [connected |-> FALSE, exc |-> "ConnectionError"]

\* connect: open the socket, HELLO; a short HELLO reply only skips the
\* session id. _connected is set on the last line.
connect(conn, o) ==
    IF o = "refused" THEN [connected |-> conn, exc |-> "ConnectionError"]
    ELSE LET r == send_and_recv(conn, o)
         IN  IF r.exc = "none" THEN [connected |-> TRUE, exc |-> "none"] ELSE r

rpc20_accepts_short(conn, o) ==
    IF ~conn THEN [connected |-> conn, exc |-> "ConnectionError"]
    ELSE send_and_recv(conn, o)

\* create_context and append_turn: _ensure_connected, _send_and_recv, then
\* the length check of the reply (20 bytes for both).
rpc20(conn, o) ==
    IF ~conn THEN [connected |-> conn, exc |-> "ConnectionError"]
    ELSE LET r == send_and_recv(conn, o)
         IN  IF r.exc = "none" /\ o = "short"
             THEN [r EXCEPT !.exc = "CXDBProtocolError"]
             ELSE r

create_context(conn, o) == rpc20(conn, o)
append_turn(conn, o) == rpc20(conn, o)
\* fork_context: as create_context; get_head: the same with a reply of 12
\* bytes.
fork_context(conn, o) == rpc20(conn, o)
get_head(conn, o) == rpc20(conn, o)

rpc_frames_always(conn) == 1

\* The frames one of these four calls writes, each under a request id of
\* its own from _next_request_id: none when _ensure_connected raises.
rpc_frames(conn) == IF conn THEN 1 ELSE 0

\* The frames connect() writes: the HELLO once the socket is open.
connect_frames(o) == IF o = "refused" THEN 0 ELSE 1

close_raises_on_failure(shutdown_fails) == shutdown_fails

\* close(): whether it raises; "except Exception: pass" around the socket
\* shutdown.
close_raises(shutdown_fails) == FALSE

\* The outcomes a call can meet: a disconnected client sends nothing.
Outcomes(conn) == IF conn THEN RpcOutcomes ELSE {"none"}

\* ------------------------------------------------------------------ store
\* The store: the number of contexts it created (their ids are 1, 2, ...)
\* and the turns whose append it acknowledged, in order.
EmptyStore == [contexts |-> 0, turns |-> <<>>]

StoreAppend(st, context_id, payload, type_id, type_version) ==
    [st EXCEPT !.turns = Append(@, BufferedRecord(context_id,
                                      serialize_envelope(payload), type_id,
                                      type_version))]

\* ----------------------------------------------------------- CXDBEventHook
BufferSize == 2          \* config["buffer_size"] of the modelled session
MaxEvents == 2           \* handle_event calls per behaviour
MaxCleanups == 1         \* cleanup calls per behaviour
MaxInitializeCalls == 1  \* direct initialize() calls per behaviour

ITEM_TYPE_VERSION == 3   \* type_version=3 at every _write_turn call
DEFAULT_TYPE_VERSION == 1   \* enqueue's default declared_type_version
CONVERSATION_ITEM == "cxdb.ConversationItem"

\* build_context_metadata: the first turn of a context.
build_context_metadata(context_label, timestamp_ms) ==
    (1 :> "system") @@ (2 :> "complete") @@ (3 :> timestamp_ms) @@
    (30 :> <<context_label>>)

\* build_event_as_system_item: the occurrence wrapped as a system item.
build_event_as_system_item(event_name, data, timestamp_ms) ==
    (1 :> "system") @@ (2 :> "complete") @@ (3 :> timestamp_ms) @@
    (12 :> <<event_name, data>>)

\* _write_turn: append when connected; on any exception, or when not
\* connected, enqueue the serialized payload (enqueue is called without a
\* type version).
write_turn_no_buffering(conn, buf, st, context_id, payload, type_id, type_version, o) ==
    LET r == append_turn(conn, o)
    IN  IF conn /\ r.exc = "none"
        THEN [connected |-> r.connected, buffer |-> buf,
              store |-> StoreAppend(st, context_id, payload, type_id, type_version)]
        ELSE [connected |-> r.connected, buffer |-> buf, store |-> st]

write_turn(conn, buf, st, context_id, payload, type_id, type_version, o) ==
    LET r == append_turn(conn, o)
        buffered == enqueue(buf, BufferedRecord(context_id,
                                    serialize_envelope(payload), type_id,
                                    DEFAULT_TYPE_VERSION))
    IN  IF conn
        THEN IF r.exc = "none"
             THEN [connected |-> r.connected, buffer |-> buf,
                   store |-> StoreAppend(st, context_id, payload, type_id,
                                         type_version)]
             ELSE [connected |-> r.connected, buffer |-> buffered, store |-> st]
        ELSE [connected |-> conn, buffer |-> buffered, store |-> st]

\* _send_turn, the flush callback: decode the bytes and append them.
send_turn(conn, st, item, o) ==
    LET r == append_turn(conn, o)
    IN  [connected |-> r.connected, ok |-> r.exc = "none",
         store |-> IF r.exc = "none"
                   THEN StoreAppend(st, item.context_id, unpackb(item.payload),
                                    item.declared_type_id,
                                    item.declared_type_version)
                   ELSE st]

\* ------------------------------------------------- the hook: state, inputs
NoEvent == EventName("", "", "")

\* The call in progress and what it did so far. fault: a store call of this
\* call met an outcome other than "ok". exc: an exception reached the except
\* clause of handle_event.
IdleCur ==
    [call |-> "none", event |-> NoEvent, data |-> <<>>, pending |-> <<>>,
     fault |-> FALSE, exc |-> FALSE, suppressed |-> FALSE,
     startedDisconnected |-> FALSE, routed |-> FALSE,
     evStored |-> 0, evEnq |-> 0,
     hadData |-> FALSE, turnItems |-> 0, turnStored |-> 0, turnEnq |-> 0,
     action |-> "none", raised |-> FALSE]

Usage(type, input_tokens, cache_read, cache_creation, output_tokens) ==
    [type |-> type, input_tokens |-> input_tokens,
     cache_read_input_tokens |-> cache_read,
     cache_creation_input_tokens |-> cache_creation,
     output_tokens |-> output_tokens]

\* The occurrences the host dispatches: (event name, data).
EventInputs ==
    << [event |-> PROMPT_SUBMIT, data |-> [prompt |-> "hi"]],
       [event |-> CONTENT_BLOCK_END, data |-> [block_type |-> "text", block |-> "hello"]],
       [event |-> TOOL_PRE, data |-> [tool_name |-> "grep", tool_call_id |-> "c1"]],
       [event |-> PROVIDER_RESPONSE, data |-> [usage |-> Usage("str", 0, 0, 0, 0)]],
       [event |-> ORCHESTRATOR_COMPLETE, data |-> [status |-> "success"]],
       [event |-> EXECUTION_END, data |-> <<>>],
       [event |-> LLM_REQUEST, data |-> <<>>],
       [event |-> LLM_REQUEST_RAW, data |-> <<>>] >>

\* known_events as mount() constructs the hook: the registered names.
KnownEventsChoices ==
    { {PROMPT_SUBMIT, CONTENT_BLOCK_END, TOOL_PRE, PROVIDER_RESPONSE,
       ORCHESTRATOR_COMPLETE, EXECUTION_END,
       LLM_REQUEST, LLM_REQUEST_DEBUG, LLM_REQUEST_RAW} }

Fault(c, o) == IF o \in {"ok", "none"} THEN c.fault ELSE TRUE

\* CXDBEventHook.__init__
HookFresh(known) ==
    /\ connected = FALSE
    /\ initialized = FALSE
    /\ registry_published = FALSE
    /\ turns_context_id = None
    /\ everything_context_id = None
    /\ acc = TurnAccumulator
    /\ known_events = known
    /\ pc = "idle"
    /\ cur = IdleCur
    /\ store = EmptyStore
    /\ hist = [events |-> 0, cleanups |-> 0, clock |-> 0, attempts |-> <<>>,
               last |-> IdleCur]

BufferFresh(max_size) ==
    /\ buffer = EventBuffer(max_size)
    /\ enqLog = <<>>
    /\ sentLog = <<>>
    /\ evictLog = <<>>
    /\ clearLog = <<>>
    /\ bufOp = NoOp

Init == BufferFresh(BufferSize) /\ \E known \in KnownEventsChoices : HookFresh(known)

InitBuffer == (\E n \in 0..MaxCapacity : BufferFresh(n)) /\ HookFresh({})

\* handle_event's "except Exception" and final return: whatever was raised
\* inside the try block, the caller gets HookResult(action="continue").
handle_event_propagating(exc) ==
    [action |-> IF exc THEN "none" ELSE "continue", raised |-> exc]

handle_event_result(exc) == [action |-> "continue", raised |-> FALSE]

\* The call returns: its summary becomes hist.last.
Finished(h, c) ==
    [h EXCEPT !.last = [c EXCEPT !.pending = <<>>, !.data = <<>>,
                                 !.action = handle_event_result(c.exc).action,
                                 !.raised = handle_event_result(c.exc).raised]]

InitEntryReturnsAtOnce(conn, published) == "init_return"

\* initialize(): the first thing it awaits.
InitEntry(conn, published) ==
    IF ~conn THEN "connect" ELSE IF ~published THEN "publish" ELSE "create_turns"

\* Where control goes when initialize() returns: back into handle_event
\* when the call came from its lazy initialization, to the host otherwise.
AfterInit(c) == IF c.call = "initialize" THEN "init_return" ELSE "route"

\* "if self._initialized: return" at the top of initialize().
initialize_always(init) == FALSE

initialize_returns_at_once(init) == init

\* The calls received so far, for the specifications that keep them; a new
\* call starts with no failed step of initialize().
Logged(h, entry) ==
    IF "log" \in DOMAIN h
    THEN [h EXCEPT !.log = Append(@, entry), !.failed = {}]
    ELSE h

\* The steps of initialize() that failed in the call in progress, for the
\* specifications that keep them.
Noted(h, step, failed) ==
    IF "failed" \in DOMAIN h /\ failed
    THEN [h EXCEPT !.failed = @ \cup {step}]
    ELSE h

\* ------------------------------------------------------ handle_event steps
\* The host calls handle_event(event, data); lazy initialization first.
HandleEventCall(i, limit) ==
    /\ pc = "idle"
    /\ hist.cleanups = 0
    /\ hist.events < limit
    /\ cur' = [IdleCur EXCEPT !.call = "handle_event",
                              !.event = EventInputs[i].event,
                              !.data = EventInputs[i].data,
                              !.startedDisconnected = ~connected]
    /\ hist' = Logged([hist EXCEPT !.events = @ + 1], i)
    /\ pc' = IF ~initialized THEN InitEntry(connected, registry_published)
             ELSE "route"
    /\ UNCHANGED <<connected, initialized, registry_published,
                   turns_context_id, everything_context_id, acc,
                   known_events, store>>
    /\ UNCHANGED bufVars

HandleEvent(i) == HandleEventCall(i, MaxEvents)

\* The host calls initialize() itself, as mount() and the tests do.
Initialize ==
    /\ pc = "idle"
    /\ hist.cleanups = 0
    /\ hist.inits < MaxInitializeCalls
    /\ cur' = [IdleCur EXCEPT !.call = "initialize",
                              !.startedDisconnected = ~connected]
    /\ hist' = Logged([hist EXCEPT !.inits = @ + 1], 0)
    /\ pc' = IF initialize_returns_at_once(initialized) THEN "init_return"
             ELSE InitEntry(connected, registry_published)
    /\ UNCHANGED <<connected, initialized, registry_published,
                   turns_context_id, everything_context_id, acc,
                   known_events, store>>
    /\ UNCHANGED bufVars

\* initialize() returns to the host; it raises nothing, its except clause
\* only logs.
InitReturn ==
    /\ pc = "init_return"
    /\ hist' = Finished(hist, cur)
    /\ cur' = IdleCur
    /\ pc' = "idle"
    /\ UNCHANGED <<connected, initialized, registry_published,
                   turns_context_id, everything_context_id, acc,
                   known_events, store>>
    /\ UNCHANGED bufVars

\* initialize: await self._client.connect()
Connect(o) ==
    /\ pc = "connect"
    /\ LET r == connect(connected, o)
       IN  /\ connected' = r.connected
           /\ pc' = IF r.exc # "none" THEN AfterInit(cur)
                    ELSE IF ~registry_published THEN "publish"
                    ELSE "create_turns"
    /\ cur' = [cur EXCEPT !.fault = Fault(cur, o)]
    /\ hist' = Noted(hist, "connect", connect(connected, o).exc # "none")
    /\ UNCHANGED <<initialized, registry_published, turns_context_id,
                   everything_context_id, acc, known_events, store>>
    /\ UNCHANGED bufVars

PublishFailureAborts(r) ==
    /\ pc = "publish"
    /\ registry_published' = (r = "published")
    /\ pc' = IF r = "published" THEN "create_turns" ELSE AfterInit(cur)
    /\ cur' = [cur EXCEPT !.fault = IF r = "raised" THEN TRUE ELSE @]
    /\ hist' = Noted(hist, "publish", r = "raised")
    /\ UNCHANGED <<connected, initialized, turns_context_id,
                   everything_context_id, acc, known_events, store>>
    /\ UNCHANGED bufVars

\* initialize: await publish_registry_bundle(...): True, False, or an
\* exception that is not an httpx.HTTPError.
Publish(r) ==
    /\ pc = "publish"
    /\ registry_published' = (r = "published")
    /\ pc' = IF r = "raised" THEN AfterInit(cur) ELSE "create_turns"
    /\ cur' = [cur EXCEPT !.fault = IF r = "raised" THEN TRUE ELSE @]
    /\ hist' = Noted(hist, "publish", r = "raised")
    /\ UNCHANGED <<connected, initialized, turns_context_id,
                   everything_context_id, acc, known_events, store>>
    /\ UNCHANGED bufVars

\* initialize: self._turns_context_id, _, _ = await create_context()
CreateTurns(o) ==
    /\ pc = "create_turns"
    /\ LET r == create_context(connected, o)
       IN  /\ connected' = r.connected
           /\ IF r.exc = "none"
              THEN /\ store' = [store EXCEPT !.contexts = @ + 1]
                   /\ turns_context_id' = store.contexts + 1
                   /\ pc' = "create_everything"
              ELSE /\ UNCHANGED <<store, turns_context_id>>
                   /\ pc' = AfterInit(cur)
    /\ cur' = [cur EXCEPT !.fault = Fault(cur, o)]
    /\ hist' = Noted(hist, "create_turns",
                     create_context(connected, o).exc # "none")
    /\ UNCHANGED <<initialized, registry_published, everything_context_id,
                   acc, known_events>>
    /\ UNCHANGED bufVars

CreateEverythingDropsId(o) ==
    /\ pc = "create_everything"
    /\ LET r == create_context(connected, o)
       IN  /\ connected' = r.connected
           /\ IF r.exc = "none"
              THEN /\ store' = [store EXCEPT !.contexts = @ + 1]
                   /\ pc' = "meta_turns"
              ELSE /\ UNCHANGED store
                   /\ pc' = AfterInit(cur)
    /\ cur' = [cur EXCEPT !.fault = Fault(cur, o)]
    /\ hist' = Noted(hist, "create_everything",
                     create_context(connected, o).exc # "none")
    /\ UNCHANGED <<initialized, registry_published, turns_context_id,
                   everything_context_id, acc, known_events>>
    /\ UNCHANGED bufVars

\* initialize: self._everything_context_id, _, _ = await create_context()
CreateEverything(o) ==
    /\ pc = "create_everything"
    /\ LET r == create_context(connected, o)
       IN  /\ connected' = r.connected
           /\ IF r.exc = "none"
              THEN /\ store' = [store EXCEPT !.contexts = @ + 1]
                   /\ everything_context_id' = store.contexts + 1
                   /\ pc' = "meta_turns"
              ELSE /\ UNCHANGED <<store, everything_context_id>>
                   /\ pc' = AfterInit(cur)
    /\ cur' = [cur EXCEPT !.fault = Fault(cur, o)]
    /\ hist' = Noted(hist, "create_everything",
                     create_context(connected, o).exc # "none")
    /\ UNCHANGED <<initialized, registry_published, turns_context_id,
                   acc, known_events>>
    /\ UNCHANGED bufVars

\* One await self._write_turn(context_id, payload, ...) and its bookkeeping.
WriteStep(context_id, payload, o) ==
    LET w == write_turn(connected, buffer, store, context_id, payload,
                        CONVERSATION_ITEM, ITEM_TYPE_VERSION, o)
    IN  /\ connected' = w.connected
        /\ buffer' = w.buffer
        /\ store' = w.store
        /\ UNCHANGED <<enqLog, sentLog, evictLog, clearLog, bufOp>>

Attempt(h, context_id, payload) ==
    [h EXCEPT !.clock = @ + 1,
              !.attempts = Append(@, [context_id |-> context_id,
                                      payload |-> serialize_envelope(payload)])]

\* initialize: the context_metadata turn of the turns context
MetaTurns(o) ==
    /\ pc = "meta_turns"
    /\ o \in Outcomes(connected)
    /\ LET item == build_context_metadata("Turns", hist.clock + 1)
       IN  /\ WriteStep(turns_context_id, item, o)
           /\ hist' = Noted(Attempt(hist, turns_context_id, item),
                            "meta_turns",
                            connected /\ append_turn(connected, o).exc # "none")
    /\ cur' = [cur EXCEPT !.fault = Fault(cur, o)]
    /\ pc' = "meta_everything"
    /\ UNCHANGED <<initialized, registry_published, turns_context_id,
                   everything_context_id, acc, known_events>>

\* initialize: the context_metadata turn of the everything context, then
\* self._initialized = True
MetaEverything(o) ==
    /\ pc = "meta_everything"
    /\ o \in Outcomes(connected)
    /\ LET item == build_context_metadata("Events", hist.clock + 1)
       IN  /\ WriteStep(everything_context_id, item, o)
           /\ hist' = Noted(Attempt(hist, everything_context_id, item),
                            "meta_everything",
                            connected /\ append_turn(connected, o).exc # "none")
    /\ cur' = [cur EXCEPT !.fault = Fault(cur, o)]
    /\ initialized' = TRUE
    /\ pc' = AfterInit(cur)
    /\ UNCHANGED <<registry_published, turns_context_id,
                   everything_context_id, acc, known_events>>

handle_turn_event_prompt_only(a, event, data) ==
    IF event = PROMPT_SUBMIT
    THEN [acc |-> on_prompt_submit(a, data), raised |-> FALSE]
    ELSE [acc |-> a, raised |-> FALSE]

\* _handle_turn_event: the accumulator afterwards, unchanged when the
\* callback raised.
handle_turn_event(a, event, data) ==
    CASE event = PROMPT_SUBMIT -> [acc |-> on_prompt_submit(a, data), raised |-> FALSE]
      [] event = CONTENT_BLOCK_END -> [acc |-> on_content_block_end(a, data), raised |-> FALSE]
      [] event = TOOL_PRE -> [acc |-> on_tool_pre(a, data), raised |-> FALSE]
      [] event = TOOL_POST -> [acc |-> on_tool_post(a, data), raised |-> FALSE]
      [] event = PROVIDER_REQUEST -> [acc |-> on_provider_request(a, data), raised |-> FALSE]
      [] event = PROVIDER_RESPONSE ->
            IF on_provider_response_raises(data)
            THEN [acc |-> a, raised |-> TRUE]
            ELSE [acc |-> on_provider_response(a, data), raised |-> FALSE]
      [] event = EXECUTION_END -> [acc |-> on_execution_end(a), raised |-> FALSE]
      [] OTHER -> [acc |-> a, raised |-> FALSE]

RouteNeverSuppresses ==
    /\ pc = "route"
    /\ LET t == IF cur.event \in TURN_EVENTS
                THEN handle_turn_event(acc, cur.event, cur.data)
                ELSE [acc |-> acc, raised |-> FALSE]
       IN  /\ acc' = t.acc
           /\ IF t.raised
              THEN /\ hist' = Finished(hist, [cur EXCEPT !.exc = TRUE])
                   /\ cur' = IdleCur
                   /\ pc' = "idle"
              ELSE /\ hist' = hist
                   /\ cur' = [cur EXCEPT !.routed = TRUE]
                   /\ pc' = "everything"
    /\ UNCHANGED <<connected, initialized, registry_published,
                   turns_context_id, everything_context_id, known_events,
                   store>>
    /\ UNCHANGED bufVars

\* handle_event after initialization, up to the write to the everything
\* context: variant deduplication, straggler suppression, the accumulator.
Route ==
    /\ pc = "route"
    /\ IF \/ ~should_process(known_events, cur.event)
          \/ is_straggler(acc, cur.event)
       THEN /\ hist' = Finished(hist, [cur EXCEPT !.suppressed = TRUE])
            /\ cur' = IdleCur
            /\ pc' = "idle"
            /\ acc' = acc
       ELSE LET t == IF cur.event \in TURN_EVENTS
                     THEN handle_turn_event(acc, cur.event, cur.data)
                     ELSE [acc |-> acc, raised |-> FALSE]
            IN  /\ acc' = t.acc
                /\ IF t.raised
                   THEN /\ hist' = Finished(hist, [cur EXCEPT !.exc = TRUE])
                        /\ cur' = IdleCur
                        /\ pc' = "idle"
                   ELSE /\ hist' = hist
                        /\ cur' = [cur EXCEPT !.routed = TRUE]
                        /\ pc' = "everything"
    /\ UNCHANGED <<connected, initialized, registry_published,
                   turns_context_id, everything_context_id, known_events,
                   store>>
    /\ UNCHANGED bufVars

\* await self._write_to_everything_context(event, data)
Everything(o) ==
    /\ pc = "everything"
    /\ o \in IF everything_context_id = None THEN {"none"} ELSE Outcomes(connected)
    /\ LET item == build_event_as_system_item(cur.event, cur.data, hist.clock + 1)
           c == [cur EXCEPT !.fault = Fault(cur, o),
                            !.evStored = Len(store'.turns) - Len(store.turns),
                            !.evEnq = buffer'.total_enqueued - buffer.total_enqueued]
           h == IF everything_context_id = None THEN hist
                ELSE Attempt(hist, everything_context_id, item)
       IN  /\ IF everything_context_id = None
              THEN UNCHANGED <<connected, store>> /\ UNCHANGED bufVars
              ELSE WriteStep(everything_context_id, item, o)
           /\ IF cur.event = ORCHESTRATOR_COMPLETE
              THEN /\ cur' = c
                   /\ hist' = h
                   /\ pc' = "flush_turns"
              ELSE /\ cur' = IdleCur
                   /\ hist' = Finished(h, c)
                   /\ pc' = "idle"
    /\ UNCHANGED <<initialized, registry_published, turns_context_id,
                   everything_context_id, acc, known_events>>

\* _flush_turns up to its first write
FlushTurns ==
    /\ pc = "flush_turns"
    /\ LET f == acc_flush(acc)
           items == IF f.turn = <<>> THEN <<>>
                    ELSE to_conversation_items(f.turn[1], hist.clock + 1)
           c == [cur EXCEPT !.hadData = f.turn # <<>>, !.turnItems = Len(items)]
       IN  /\ acc' = f.acc
           /\ IF f.turn = <<>> \/ turns_context_id = None
              THEN /\ cur' = IdleCur
                   /\ hist' = Finished(hist, c)
                   /\ pc' = "idle"
              ELSE /\ cur' = [c EXCEPT !.pending = items]
                   /\ hist' = [hist EXCEPT !.clock = @ + 1]
                   /\ pc' = "turn_write"
    /\ UNCHANGED <<connected, initialized, registry_published,
                   turns_context_id, everything_context_id, known_events,
                   store>>
    /\ UNCHANGED bufVars

\* One write of a flushed item to the turns context; after the last one the
\* coroutine goes on at `after`.
PendingWrite(o, after) ==
    /\ o \in Outcomes(connected)
    /\ LET item == Head(cur.pending)
           c == [cur EXCEPT !.pending = Tail(@),
                            !.fault = Fault(cur, o),
                            !.turnStored = @ + Len(store'.turns) - Len(store.turns),
                            !.turnEnq = @ + buffer'.total_enqueued
                                          - buffer.total_enqueued]
           h == [hist EXCEPT !.attempts =
                     Append(@, [context_id |-> turns_context_id,
                                payload |-> serialize_envelope(item)])]
       IN  /\ WriteStep(turns_context_id, item, o)
           /\ IF Tail(cur.pending) # <<>>
              THEN cur' = c /\ hist' = h /\ pc' = pc
              ELSE IF after = "idle"
              THEN cur' = IdleCur /\ hist' = Finished(h, c) /\ pc' = "idle"
              ELSE cur' = c /\ hist' = h /\ pc' = after
    /\ UNCHANGED <<initialized, registry_published, turns_context_id,
                   everything_context_id, acc, known_events>>

\* _flush_turns: await self._write_turn(self._turns_context_id, item, ...)
TurnWrite(o) == pc = "turn_write" /\ PendingWrite(o, "idle")

\* ------------------------------------------------------------ cleanup steps
\* cleanup: flush the accumulator, up to the first write
CleanupCall(limit) ==
    /\ pc = "idle"
    /\ hist.cleanups < limit
    /\ LET f == acc_flush(acc)
           items == IF f.turn = <<>> THEN <<>>
                    ELSE to_conversation_items(f.turn[1], hist.clock + 1)
           c == [IdleCur EXCEPT !.call = "cleanup",
                                !.startedDisconnected = ~connected,
                                !.hadData = f.turn # <<>>,
                                !.turnItems = Len(items)]
       IN  /\ acc' = f.acc
           /\ IF f.turn # <<>> /\ turns_context_id # None
              THEN /\ cur' = [c EXCEPT !.pending = items]
                   /\ hist' = [hist EXCEPT !.clock = @ + 1]
                   /\ pc' = "cl_turn_write"
              ELSE /\ cur' = c
                   /\ hist' = hist
                   /\ pc' = "cl_flush"
    /\ UNCHANGED <<connected, initialized, registry_published,
                   turns_context_id, everything_context_id, known_events,
                   store>>
    /\ UNCHANGED bufVars

Cleanup == CleanupCall(MaxCleanups)

\* cleanup: await self._write_turn(self._turns_context_id, item, ...)
CleanupTurnWrite(o) == pc = "cl_turn_write" /\ PendingWrite(o, "cl_flush")

\* cleanup: if self._buffer.size > 0 and self._client.connected
cleanup_flushes_always(b, conn) == size(b) > 0

cleanup_flushes(b, conn) == size(b) > 0 /\ conn

CleanupFlush ==
    /\ pc = "cl_flush"
    /\ pc' = IF cleanup_flushes(buffer, connected) THEN "cl_send" ELSE "cl_close"
    /\ UNCHANGED <<connected, initialized, registry_published,
                   turns_context_id, everything_context_id, acc,
                   known_events, cur, store, hist>>
    /\ UNCHANGED bufVars

\* cleanup: one iteration of self._buffer.flush(self._send_turn)
CleanupSend(o) ==
    /\ pc = "cl_send"
    /\ o \in RpcOutcomes
    /\ LET r == send_turn(connected, store, FlushPeek(buffer), o)
       IN  /\ connected' = r.connected
           /\ store' = r.store
           /\ buffer' = FlushIteration(buffer, r.ok)
           /\ pc' = IF r.ok /\ buffer'.items # <<>> THEN "cl_send" ELSE "cl_close"
    /\ cur' = [cur EXCEPT !.fault = Fault(cur, o)]
    /\ UNCHANGED <<enqLog, sentLog, evictLog, clearLog, bufOp>>
    /\ UNCHANGED <<initialized, registry_published, turns_context_id,
                   everything_context_id, acc, known_events, hist>>

close_leaves_connection(conn) == conn

\* cleanup: await self._client.close()
close(conn) == FALSE

CleanupClose ==
    /\ pc = "cl_close"
    /\ connected' = close(connected)
    /\ hist' = [Finished(hist, cur) EXCEPT !.cleanups = @ + 1]
    /\ cur' = IdleCur
    /\ pc' = "idle"
    /\ UNCHANGED <<initialized, registry_published, turns_context_id,
                   everything_context_id, acc, known_events, store>>
    /\ UNCHANGED bufVars

\* ---------------------------------------------------------- specifications
Next ==
    \/ \E i \in 1..Len(EventInputs) : HandleEvent(i)
    \/ \E o \in ConnectOutcomes : Connect(o)
    \/ \E r \in {"published", "failed", "raised"} : Publish(r)
    \/ \E o \in RpcOutcomes : CreateTurns(o)
    \/ \E o \in RpcOutcomes : CreateEverything(o)
    \/ \E o \in RpcOutcomes \cup {"none"} : MetaTurns(o)
    \/ \E o \in RpcOutcomes \cup {"none"} : MetaEverything(o)
    \/ Route
    \/ \E o \in RpcOutcomes \cup {"none"} : Everything(o)
    \/ FlushTurns
    \/ \E o \in RpcOutcomes \cup {"none"} : TurnWrite(o)
    \/ Cleanup
    \/ \E o \in RpcOutcomes \cup {"none"} : CleanupTurnWrite(o)
    \/ CleanupFlush
    \/ \E o \in RpcOutcomes : CleanupSend(o)
    \/ CleanupClose

Spec == Init /\ [][Next]_vars

NextBuffer ==
    \/ \E a \in EnqueueInputs : BufEnqueue(a[1], a[2])
    \/ \E k \in 0..MaxCapacity : BufFlush(k)
    \/ BufClear

SpecBuffer == InitBuffer /\ [][NextBuffer]_vars

\* ------------------------- SpecRetry: initialization retried across events
MaxRetryEvents == 3   \* SpecRetry: handle_event calls per behaviour

\* A prompt followed by the end of the turn.
RetryInputs == {1, 5}

RetryEvent(i) == HandleEventCall(i, MaxRetryEvents)

NextRetry ==
    \/ \E i \in RetryInputs : RetryEvent(i)
    \/ \E o \in ConnectOutcomes : Connect(o)
    \/ \E r \in {"published", "failed", "raised"} : Publish(r)
    \/ \E o \in RpcOutcomes : CreateTurns(o)
    \/ \E o \in RpcOutcomes : CreateEverything(o)
    \/ \E o \in RpcOutcomes \cup {"none"} : MetaTurns(o)
    \/ \E o \in RpcOutcomes \cup {"none"} : MetaEverything(o)
    \/ Route
    \/ \E o \in RpcOutcomes \cup {"none"} : Everything(o)
    \/ FlushTurns
    \/ \E o \in RpcOutcomes \cup {"none"} : TurnWrite(o)

SpecRetry == Init /\ [][NextRetry]_vars

\* ------------------------------------------- SpecDedup: the deduplicator
\* A VariantDeduplicator constructed from any set of registered names and
\* asked about a sequence of event names, as step (2) of handle_event does.
MaxDedupCalls == 3      \* SpecDedup: should_process calls per behaviour

SESSION_START == EventName("session", "start", "")
SESSION_START_DEBUG == EventName("session", "start", ":debug")

\* The names a deduplicator may be constructed with, and may be asked about.
DedupKnown == {LLM_REQUEST, LLM_REQUEST_DEBUG, LLM_REQUEST_RAW,
               SESSION_START, SESSION_START_DEBUG, TOOL_POST}
DedupInputs == DedupKnown \cup {ORCHESTRATOR_COMPLETE}

\* The router's own variables while a component is driven on its own.
RouterAtRest ==
    /\ connected = FALSE
    /\ initialized = FALSE
    /\ registry_published = FALSE
    /\ turns_context_id = None
    /\ everything_context_id = None
    /\ pc = "idle"
    /\ store = EmptyStore

\* VariantDeduplicator.__init__(known_events)
InitDedup ==
    /\ BufferFresh(0)
    /\ RouterAtRest
    /\ acc = TurnAccumulator
    /\ known_events \in SUBSET DedupKnown
    /\ cur = [call |-> "none", event |-> NoEvent, ret |-> FALSE]
    /\ hist = [calls |-> 0, log |-> <<>>]

\* self._variant_dedup.should_process(event): a lookup, no state is written
ShouldProcess(event_name) ==
    /\ hist.calls < MaxDedupCalls
    /\ LET ret == should_process(known_events, event_name)
       IN  /\ cur' = [call |-> "should_process", event |-> event_name,
                      ret |-> ret]
           /\ hist' = [calls |-> hist.calls + 1,
                       log |-> Append(hist.log, [event |-> event_name,
                                                 ret |-> ret])]
    /\ UNCHANGED <<connected, initialized, registry_published,
                   turns_context_id, everything_context_id, acc,
                   known_events, pc, store>>
    /\ UNCHANGED bufVars

NextDedup == \E event_name \in DedupInputs : ShouldProcess(event_name)

SpecDedup == InitDedup /\ [][NextDedup]_vars

\* ------------------------------- SpecScenario: the store always answers
\* The hook with a reachable store: every call to the store succeeds, the
\* registry bundle is published or not. The host calls initialize() and
\* handle_event in any order; hist.log keeps the calls: 0 for initialize(),
\* the index in EventInputs for handle_event.
MaxScenarioEvents == 3  \* SpecScenario: handle_event calls per behaviour

InitScenario ==
    /\ BufferFresh(BufferSize)
    /\ RouterAtRest
    /\ acc = TurnAccumulator
    /\ known_events \in KnownEventsChoices
    /\ cur = IdleCur
    /\ hist = [events |-> 0, cleanups |-> 0, clock |-> 0, attempts |-> <<>>,
               last |-> IdleCur, inits |-> 0, log |-> <<>>, failed |-> {}]

ScenarioEvent(i) == HandleEventCall(i, MaxScenarioEvents)

NextScenario ==
    \/ \E i \in 1..Len(EventInputs) : ScenarioEvent(i)
    \/ Initialize
    \/ InitReturn
    \/ Connect("ok")
    \/ \E r \in {"published", "failed"} : Publish(r)
    \/ CreateTurns("ok")
    \/ CreateEverything("ok")
    \/ MetaTurns("ok")
    \/ MetaEverything("ok")
    \/ Route
    \/ Everything("ok")
    \/ FlushTurns
    \/ TurnWrite("ok")

SpecScenario == InitScenario /\ [][NextScenario]_vars

\* --------------------------------- SpecLifecycle: initialize and cleanup
\* The hook over its life: the host calls initialize(), handle_event for a
\* prompt, and cleanup(), cleanup() possibly twice; every call to the store
\* may fail in every way. No cycle ends, so handle_event flushes no turn.
MaxLifecycleEvents == 2     \* SpecLifecycle: handle_event calls
MaxLifecycleCleanups == 2   \* SpecLifecycle: cleanup calls

\* prompt:submit "hi"
LifecycleInputs == {1}

LifecycleEvent(i) == HandleEventCall(i, MaxLifecycleEvents)

LifecycleCleanup == CleanupCall(MaxLifecycleCleanups)

NextLifecycle ==
    \/ \E i \in LifecycleInputs : LifecycleEvent(i)
    \/ Initialize
    \/ InitReturn
    \/ \E o \in ConnectOutcomes : Connect(o)
    \/ \E r \in {"published", "failed", "raised"} : Publish(r)
    \/ \E o \in RpcOutcomes : CreateTurns(o)
    \/ \E o \in RpcOutcomes : CreateEverything(o)
    \/ \E o \in RpcOutcomes \cup {"none"} : MetaTurns(o)
    \/ \E o \in RpcOutcomes \cup {"none"} : MetaEverything(o)
    \/ Route
    \/ \E o \in RpcOutcomes \cup {"none"} : Everything(o)
    \/ LifecycleCleanup
    \/ \E o \in RpcOutcomes \cup {"none"} : CleanupTurnWrite(o)
    \/ CleanupFlush
    \/ \E o \in RpcOutcomes : CleanupSend(o)
    \/ CleanupClose

SpecLifecycle == InitScenario /\ [][NextLifecycle]_vars

\* ------------------------------------------- SpecClient: the TCP client
\* A CXDBTcpClient driven directly. connected is its _connected; cur keeps
\* its _request_id, the last call with the outcome the store gave it, the
\* exception it raised and the client as it was before; hist counts the
\* calls and the frames written.
MaxClientCalls == 4     \* SpecClient: calls per behaviour

RpcNames == {"create_context", "fork_context", "get_head", "append_turn"}

\* CXDBTcpClient.__init__
InitClient ==
    /\ BufferFresh(0)
    /\ RouterAtRest
    /\ known_events = {}
    /\ acc = TurnAccumulator
    /\ cur = [request_id |-> 0, op |-> "none", o |-> "none", exc |-> "none",
              raised |-> FALSE,
              before |-> [connected |-> FALSE, request_id |-> 0]]
    /\ hist = [calls |-> 0, frames |-> 0]

\* One call on the client: r its result, frames the frames it wrote.
ClientCall(op, o, r, frames, raised) ==
    /\ hist.calls < MaxClientCalls
    /\ connected' = r.connected
    /\ cur' = [request_id |-> cur.request_id + frames, op |-> op, o |-> o,
               exc |-> r.exc, raised |-> raised,
               before |-> [connected |-> connected,
                           request_id |-> cur.request_id]]
    /\ hist' = [calls |-> hist.calls + 1, frames |-> hist.frames + frames]
    /\ UNCHANGED <<initialized, registry_published, turns_context_id,
                   everything_context_id, acc, known_events, pc, store>>
    /\ UNCHANGED bufVars

ClientConnect(o) ==
    LET r == connect(connected, o)
    IN  ClientCall("connect", o, r, connect_frames(o), r.exc # "none")

ClientCreateContext(o) ==
    /\ o \in Outcomes(connected)
    /\ LET r == create_context(connected, o)
       IN  ClientCall("create_context", o, r, rpc_frames(connected),
                      r.exc # "none")

ClientForkContext(o) ==
    /\ o \in Outcomes(connected)
    /\ LET r == fork_context(connected, o)
       IN  ClientCall("fork_context", o, r, rpc_frames(connected),
                      r.exc # "none")

ClientGetHead(o) ==
    /\ o \in Outcomes(connected)
    /\ LET r == get_head(connected, o)
       IN  ClientCall("get_head", o, r, rpc_frames(connected), r.exc # "none")

ClientAppendTurn(o) ==
    /\ o \in Outcomes(connected)
    /\ LET r == append_turn(connected, o)
       IN  ClientCall("append_turn", o, r, rpc_frames(connected),
                      r.exc # "none")

\* close(); shutdown_fails: closing the socket raises.
ClientClose(shutdown_fails) ==
    ClientCall("close", IF shutdown_fails THEN "shutdown_fails" ELSE "ok",
               [connected |-> close(connected), exc |-> "none"], 0,
               close_raises(shutdown_fails))

NextClient ==
    \/ \E o \in ConnectOutcomes : ClientConnect(o)
    \/ \E o \in RpcOutcomes \cup {"none"} : ClientCreateContext(o)
    \/ \E o \in RpcOutcomes \cup {"none"} : ClientForkContext(o)
    \/ \E o \in RpcOutcomes \cup {"none"} : ClientGetHead(o)
    \/ \E o \in RpcOutcomes \cup {"none"} : ClientAppendTurn(o)
    \/ \E shutdown_fails \in BOOLEAN : ClientClose(shutdown_fails)

SpecClient == InitClient /\ [][NextClient]_vars

\* ------------------------------------------- SpecAcc: the accumulator
\* A TurnAccumulator driven directly by its signals and by flush. hist keeps
\* what was signalled since the last flush.
MaxAccOps == 4          \* SpecAcc: signals and flushes per behaviour

PromptInputs == {[prompt |-> "hi"], <<>>}
ToolPreInputs == {[tool_name |-> "grep", tool_call_id |-> "c1"],
                  [tool_name |-> "grep", tool_call_id |-> "c2"]}
ToolPostInputs == {[tool_name |-> "grep", tool_call_id |-> "c1", result |-> "r1"],
                   [tool_name |-> "grep", tool_call_id |-> "c2", result |-> "r2"],
                   [tool_name |-> "grep", result |-> "r0"]}
BlockInputs == {[block_type |-> "text", block |-> "he"],
                [block_type |-> "text", block |-> "llo"],
                [block_type |-> "text", block |-> ""],
                [block_type |-> "tool_use", block |-> "x"]}

NothingSignalled == [ops |-> 0, prompt |-> Null, texts |-> <<>>, tools |-> 0]

\* TurnAccumulator.__init__
InitAcc ==
    /\ BufferFresh(0)
    /\ RouterAtRest
    /\ known_events = {}
    /\ acc = TurnAccumulator
    /\ cur = [op |-> "none", data |-> <<>>, before |-> TurnAccumulator,
              seen |-> NothingSignalled, ret |-> <<>>]
    /\ hist = NothingSignalled

\* One call on the accumulator: a2 the accumulator afterwards, ret what the
\* call returned, h the signals since the last flush. cur keeps the
\* accumulator and the signals as they were before the call.
AccCallWithin(limit, op, data, a2, ret, h) ==
    /\ hist.ops < limit
    /\ acc' = a2
    /\ cur' = [op |-> op, data |-> data, before |-> acc, seen |-> hist,
               ret |-> ret]
    /\ hist' = [h EXCEPT !.ops = hist.ops + 1]
    /\ UNCHANGED <<connected, initialized, registry_published,
                   turns_context_id, everything_context_id, known_events,
                   pc, store>>
    /\ UNCHANGED bufVars

AccCall(op, data, a2, ret, h) == AccCallWithin(MaxAccOps, op, data, a2, ret, h)

AccPromptSubmit(data) ==
    AccCall("prompt_submit", data, on_prompt_submit(acc, data), <<>>,
            IF Get(data, "prompt") # Null
            THEN [hist EXCEPT !.prompt = data.prompt] ELSE hist)

AccToolPre(data) ==
    AccCall("tool_pre", data, on_tool_pre(acc, data), <<>>,
            [hist EXCEPT !.tools = @ + 1])

AccToolPost(data) ==
    AccCall("tool_post", data, on_tool_post(acc, data), <<>>, hist)

AccContentBlockEnd(data) ==
    AccCall("content_block_end", data, on_content_block_end(acc, data), <<>>,
            IF data.block_type = "text" /\ data.block # ""
            THEN [hist EXCEPT !.texts = Append(@, data.block)] ELSE hist)

AccExecutionEnd ==
    AccCall("execution_end", <<>>, on_execution_end(acc), <<>>, hist)

AccFlush ==
    AccCall("flush", <<>>, acc_flush(acc).acc, acc_flush(acc).turn,
            [NothingSignalled EXCEPT !.ops = hist.ops])

NextAcc ==
    \/ \E data \in PromptInputs : AccPromptSubmit(data)
    \/ \E data \in ToolPreInputs : AccToolPre(data)
    \/ \E data \in ToolPostInputs : AccToolPost(data)
    \/ \E data \in BlockInputs : AccContentBlockEnd(data)
    \/ AccExecutionEnd
    \/ AccFlush

SpecAcc == InitAcc /\ [][NextAcc]_vars

\* --------------------------------- SpecMetrics: the provider's metrics
\* A TurnAccumulator that receives provider:request and provider:response
\* signals and is flushed.
MaxMetricOps == 2       \* SpecMetrics: signals and flushes per behaviour

RECURSIVE UsageWith(_, _)
\* The usage dicts whose fields, listed as <<key, count>>, are each absent,
\* None or the count.
UsageWith(fields, usage) ==
    IF fields = <<>> THEN {usage}
    ELSE LET key == Head(fields)[1]
             count == Head(fields)[2]
         IN  UsageWith(Tail(fields), usage)
             \cup UsageWith(Tail(fields), (key :> NoTokens) @@ usage)
             \cup UsageWith(Tail(fields), (key :> count) @@ usage)

UsageInputs ==
    UsageWith(<< <<"input_tokens", 5>>, <<"cache_read_input_tokens", 1000>>,
                 <<"cache_creation_input_tokens", 200>>,
                 <<"output_tokens", 500>> >>,
              [type |-> "dict"])

MetricsProviderRequest ==
    AccCallWithin(MaxMetricOps, "provider_request", <<>>,
                  on_provider_request(acc, <<>>), <<>>, hist)

MetricsProviderResponse(usage) ==
    AccCallWithin(MaxMetricOps, "provider_response", [usage |-> usage],
                  on_provider_response(acc, [usage |-> usage]), <<>>, hist)

MetricsPromptSubmit ==
    AccCallWithin(MaxMetricOps, "prompt_submit", [prompt |-> "hi"],
                  on_prompt_submit(acc, [prompt |-> "hi"]), <<>>,
                  [hist EXCEPT !.prompt = "hi"])

MetricsFlush ==
    AccCallWithin(MaxMetricOps, "flush", <<>>, acc_flush(acc).acc,
                  acc_flush(acc).turn,
                  [NothingSignalled EXCEPT !.ops = hist.ops])

NextMetrics ==
    \/ MetricsProviderRequest
    \/ \E usage \in UsageInputs : MetricsProviderResponse(usage)
    \/ MetricsPromptSubmit
    \/ MetricsFlush

SpecMetrics == InitAcc /\ [][NextMetrics]_vars

\* ------------------------------------------- SpecFrame: the wire frames
\* A frame is encoded from any combination of the sampled field values and
\* decoded whole; then it is decoded again cut short or followed by one
\* more byte.
MaxPayloadLen == 2      \* SpecFrame: payload lengths 0..MaxPayloadLen

MsgTypes == {1, 2, 3, 4, 5, 255, 65535}
FlagValues == {0, 255, 256, 65535}
RequestIds == {0, 1, 42, 65536, 16777217}
PayloadBytes == {0, 1, 255}

RECURSIVE BytesOfLen(_)
BytesOfLen(n) ==
    IF n = 0 THEN {<<>>}
    ELSE {<<b>> \o rest : b \in PayloadBytes, rest \in BytesOfLen(n - 1)}

Payloads == UNION {BytesOfLen(n) : n \in 0..MaxPayloadLen}

NoFrame == [op |-> "none", msg_type |-> 0, flags |-> 0, request_id |-> 0,
            payload |-> <<>>, frame |-> <<>>, data |-> <<>>,
            decoded |-> [raised |-> FALSE, value |-> <<>>]]

InitFrame ==
    /\ BufferFresh(0)
    /\ RouterAtRest
    /\ known_events = {}
    /\ acc = TurnAccumulator
    /\ cur = NoFrame
    /\ hist = [ops |-> 0]

\* The last frame encoded, what was handed to decode_frame, and its result.
Decoding(op, c, data) ==
    [op |-> op, msg_type |-> c.msg_type, flags |-> c.flags,
     request_id |-> c.request_id, payload |-> c.payload, frame |-> c.frame,
     data |-> data, decoded |-> decode_frame(data)]

FrameStep(c) ==
    /\ cur' = c
    /\ hist' = [ops |-> hist.ops + 1]
    /\ UNCHANGED <<connected, initialized, registry_published,
                   turns_context_id, everything_context_id, acc,
                   known_events, pc, store>>
    /\ UNCHANGED bufVars

\* encode_frame, then decode_frame of the frame
EncodeDecode(t, id, p, f) ==
    /\ hist.ops = 0
    /\ LET frame == encode_frame(t, id, p, f)
       IN  FrameStep(Decoding("roundtrip",
                              [msg_type |-> t, flags |-> f, request_id |-> id,
                               payload |-> p, frame |-> frame], frame))

\* decode_frame of the first n bytes of the last frame
DecodePrefix(n) ==
    /\ hist.ops = 1
    /\ n < Len(cur.frame)
    /\ LET data == SubSeq(cur.frame, 1, n)
       IN  FrameStep(Decoding("prefix", cur, data))

\* decode_frame of the last frame followed by one more byte
DecodeLonger(b) ==
    /\ hist.ops = 1
    /\ LET data == Append(cur.frame, b)
       IN  FrameStep(Decoding("longer", cur, data))

NextFrame ==
    \/ \E t \in MsgTypes, id \in RequestIds, p \in Payloads,
          f \in FlagValues : EncodeDecode(t, id, p, f)
    \/ \E n \in 0..(FRAME_HEADER_SIZE + MaxPayloadLen) : DecodePrefix(n)
    \/ \E b \in PayloadBytes : DecodeLonger(b)

SpecFrame == InitFrame /\ [][NextFrame]_vars

\* ------------------------------- SpecSerialize: payload serialization
\* A Python dict keeps its items in insertion order: a payload is the
\* sequence of its items, each a scalar (a string) or a nested dict.
MaxTag == 2
NestedTag == 10

Scalar(key, text) == [key |-> key, kind |-> "str", scalar |-> text, items |-> <<>>]
Nested(key, d) == [key |-> key, kind |-> "map", scalar |-> "", items |-> d]

\* dict.__eq__: the same keys with equal values, whatever the order.
RECURSIVE AsMapping(_)
AsMapping(d) ==
    { [key |-> d[i].key, kind |-> d[i].kind, scalar |-> d[i].scalar,
       nested |-> AsMapping(d[i].items)] : i \in 1..Len(d) }

\* sorted(payload.items()): the items in ascending key order.
RECURSIVE sorted_items(_)
sorted_items(d) ==
    IF d = <<>> THEN <<>>
    ELSE LET i == CHOOSE j \in 1..Len(d) : \A k \in 1..Len(d) : d[j].key <= d[k].key
         IN  <<d[i]>> \o sorted_items(SubSeq(d, 1, i - 1) \o SubSeq(d, i + 1, Len(d)))

\* str.encode("utf-8") of the texts used as values.
utf8(text) ==
    CASE text = "a" -> <<97>>
      [] text = "b" -> <<98>>
      [] text = "c" -> <<99>>
      [] OTHER      -> <<100>>

\* msgpack.packb(d, use_bin_type=True): a fixmap header 0x80 | len, then each
\* item in the dict's own order: the key as a positive fixint, the value as
\* a fixstr (0xa0 | len, utf-8 bytes) or as a map packed the same way.
RECURSIVE packb(_)
RECURSIVE pack_items(_)
pack_items(d) ==
    IF d = <<>> THEN <<>>
    ELSE <<d[1].key>>
         \o (IF d[1].kind = "map" THEN packb(d[1].items)
             ELSE <<160 + Len(utf8(d[1].scalar))>> \o utf8(d[1].scalar))
         \o pack_items(Tail(d))
packb(d) == <<128 + Len(d)>> \o pack_items(d)

\* blake3.blake3(bytes).digest(): a function of the bytes, taken as
\* collision free.
blake3(bytes) == [algorithm |-> "blake3", of |-> bytes]

serialize_payload(payload) ==
    LET msgpack_bytes == packb(sorted_items(payload))
    IN  [bytes |-> msgpack_bytes, hash |-> blake3(msgpack_bytes)]

TagText(key) == CASE key = 1 -> "a" [] key = 2 -> "b" [] key = 3 -> "c" [] OTHER -> "d"

\* every insertion order of a set of items with distinct keys.
Orderings(items) ==
    { d \in [1..Cardinality(items) -> items] :
        \A i, j \in 1..Cardinality(items) : i # j => d[i] # d[j] }

ScalarItems == { Scalar(k, TagText(k)) : k \in 1..MaxTag }
NestedDicts == UNION { Orderings(S) : S \in SUBSET ScalarItems }
NestedItems == { Nested(NestedTag, d) : d \in NestedDicts }
PayloadInputs ==
    UNION { Orderings(S \cup N) :
              S \in SUBSET ScalarItems, N \in {{}} \cup { {n} : n \in NestedItems } }

NoSerialized == [bytes |-> <<>>, hash |-> blake3(<<>>)]

InitSerialize ==
    /\ BufferFresh(0)
    /\ RouterAtRest
    /\ known_events = {}
    /\ acc = TurnAccumulator
    /\ cur = [op |-> "none", payload1 |-> <<>>, payload2 |-> <<>>,
              serialized1 |-> NoSerialized, serialized2 |-> NoSerialized]
    /\ hist = [ops |-> 0]

\* serialize_payload called on two dicts that compare equal.
SerializeEqualPayloads(p1, p2) ==
    /\ hist.ops = 0
    /\ AsMapping(p1) = AsMapping(p2)
    /\ cur' = [op |-> "serialize", payload1 |-> p1, payload2 |-> p2,
               serialized1 |-> serialize_payload(p1),
               serialized2 |-> serialize_payload(p2)]
    /\ hist' = [ops |-> hist.ops + 1]
    /\ UNCHANGED <<buffer, enqLog, sentLog, evictLog, clearLog, bufOp, connected,
                   initialized, registry_published, turns_context_id,
                   everything_context_id, acc, known_events, pc, store>>

NextSerialize ==
    /\ hist.ops = 0
    /\ \E p1 \in PayloadInputs : \E p2 \in PayloadInputs : SerializeEqualPayloads(p1, p2)

SpecSerialize == InitSerialize /\ [][NextSerialize]_vars

\* ------------------------------- SpecLatency: the latency measurement
\* A TurnAccumulator that receives provider:request and provider:response
\* signals, with and without usage, and is flushed.  hist.fresh_request
\* tells whether a provider:request came after the previous
\* provider:response.
MaxLatencyOps == 4

ResponseInputs ==
    { <<>>,
      [usage |-> [type |-> "dict"]],
      [usage |-> [type |-> "dict", input_tokens |-> 5, output_tokens |-> 500]] }

NoLatencySignal == [ops |-> 0, fresh_request |-> FALSE]

InitLatency ==
    /\ BufferFresh(0)
    /\ RouterAtRest
    /\ known_events = {}
    /\ acc = TurnAccumulator
    /\ cur = [op |-> "none", data |-> <<>>, before |-> TurnAccumulator,
              seen |-> NoLatencySignal, ret |-> <<>>]
    /\ hist = NoLatencySignal

LatencyProviderRequest ==
    AccCallWithin(MaxLatencyOps, "provider_request", <<>>,
                  on_provider_request(acc, <<>>), <<>>,
                  [hist EXCEPT !.fresh_request = TRUE])

LatencyProviderResponse(data) ==
    AccCallWithin(MaxLatencyOps, "provider_response", data,
                  on_provider_response(acc, data), <<>>,
                  [hist EXCEPT !.fresh_request = FALSE])

LatencyPromptSubmit ==
    AccCallWithin(MaxLatencyOps, "prompt_submit", [prompt |-> "hi"],
                  on_prompt_submit(acc, [prompt |-> "hi"]), <<>>, hist)

LatencyFlush ==
    AccCallWithin(MaxLatencyOps, "flush", <<>>, acc_flush(acc).acc,
                  acc_flush(acc).turn, hist)

NextLatency ==
    \/ LatencyProviderRequest
    \/ \E data \in ResponseInputs : LatencyProviderResponse(data)
    \/ LatencyPromptSubmit
    \/ LatencyFlush

SpecLatency == InitLatency /\ [][NextLatency]_vars

\* ----------------------------- SpecWire: requests and replies on the wire
\* One CXDBTcpClient used by the tasks of Tasks.  The server answers the
\* requests in the order it received them; a reply carries the id of the
\* request it answers.  cur.unanswered holds the requests the server has
\* not answered yet, cur.stream the replies that reached the StreamReader
\* and were not read yet; hist.overlapped tells whether a call was ever
\* started while another call was in progress.
MaxWireCalls == 3
Tasks == {"a", "b"}

TaskIdle == [pc |-> "idle", request_id |-> 0, outcome |-> "none", reply |-> 0]

InitWire ==
    /\ BufferFresh(0)
    /\ RouterAtRest
    /\ known_events = {}
    /\ acc = TurnAccumulator
    /\ cur = [request_id |-> 0, unanswered |-> <<>>, stream |-> <<>>,
              task |-> [t \in Tasks |-> TaskIdle]]
    /\ hist = [calls |-> 0, overlapped |-> FALSE]

WireStep(c, conn, h) ==
    /\ cur' = c
    /\ connected' = conn
    /\ hist' = h
    /\ UNCHANGED <<initialized, registry_published, turns_context_id,
                   everything_context_id, acc, known_events, pc, store>>
    /\ UNCHANGED bufVars

\* connect(): the HELLO request and its reply, then _connected = True.
WireConnect ==
    /\ ~connected
    /\ cur.request_id = 0
    /\ WireStep([cur EXCEPT !.request_id = @ + 1], TRUE, hist)

\* An RPC up to "await self._writer.drain()": _ensure_connected, then
\* _send_and_recv takes the next request id and writes the frame.
WireSend(t) ==
    /\ cur.task[t].pc = "idle"
    /\ cur.request_id > 0
    /\ hist.calls < MaxWireCalls
    /\ LET h == [hist EXCEPT !.calls = @ + 1,
                             !.overlapped = @ \/ \E u \in Tasks : cur.task[u].pc # "idle"]
       IN  IF connected
           THEN WireStep([cur EXCEPT !.request_id = @ + 1,
                                     !.unanswered = Append(@, cur.request_id + 1),
                                     !.task[t] = [pc |-> "sent",
                                                  request_id |-> cur.request_id + 1,
                                                  outcome |-> "none", reply |-> 0]],
                         connected, h)
           ELSE WireStep([cur EXCEPT !.task[t] = [TaskIdle EXCEPT !.outcome = "not_connected"]],
                         connected, h)

\* The server answers its oldest request; the reply reaches the reader.
ServerReply ==
    /\ cur.unanswered # <<>>
    /\ WireStep([cur EXCEPT !.unanswered = Tail(@),
                            !.stream = Append(@, Head(cur.unanswered))],
                connected, hist)

\* readexactly() with no data buffered: the task blocks, or raises
\* RuntimeError when another task is already blocked on the reader.
WireWait(t) ==
    /\ cur.task[t].pc = "sent"
    /\ cur.stream = <<>>
    /\ IF \E u \in Tasks : cur.task[u].pc = "blocked"
       THEN WireStep([cur EXCEPT !.task[t] = [@ EXCEPT !.pc = "idle", !.outcome = "busy"]],
                     connected, hist)
       ELSE WireStep([cur EXCEPT !.task[t].pc = "blocked"], connected, hist)

\* The response frame is read: whatever frame is first in the stream; its
\* request id is unpacked into _resp_req_id and not looked at.
WireRead(t) ==
    /\ cur.task[t].pc \in {"sent", "blocked"}
    /\ cur.stream # <<>>
    /\ WireStep([cur EXCEPT !.stream = Tail(@),
                            !.task[t] = [@ EXCEPT !.pc = "idle", !.outcome = "reply",
                                                  !.reply = Head(cur.stream)]],
                connected, hist)

\* asyncio.TimeoutError: ConnectionError, _connected left as it is.
WireTimeout(t) ==
    /\ cur.task[t].pc = "blocked"
    /\ cur.stream = <<>>
    /\ WireStep([cur EXCEPT !.task[t] = [@ EXCEPT !.pc = "idle", !.outcome = "timeout"]],
                send_and_recv(connected, "timeout").connected, hist)

\* IncompleteReadError or OSError: _connected = False, ConnectionError.
WireLost(t) ==
    /\ cur.task[t].pc = "blocked"
    /\ cur.stream = <<>>
    /\ WireStep([cur EXCEPT !.task[t] = [@ EXCEPT !.pc = "idle", !.outcome = "lost"]],
                send_and_recv(connected, "lost").connected, hist)

NextWire ==
    \/ WireConnect
    \/ \E t \in Tasks : WireSend(t)
    \/ ServerReply
    \/ \E t \in Tasks : WireWait(t)
    \/ \E t \in Tasks : WireRead(t)
    \/ \E t \in Tasks : WireTimeout(t)
    \/ \E t \in Tasks : WireLost(t)

SpecWire == InitWire /\ [][NextWire]_vars

\* ------------------------------- SpecEnvelope: the envelope's size stamp
\* build_event_envelope on envelopes of growing size.  A string is
\* modelled by its length in bytes, the timestamp by its msgpack width; an
\* envelope is the function from its tags other than 6 to the packed
\* lengths of their values, with the value of tag 6.
MaxDataLen == 150

\* msgpack: positive fixint, uint8, uint16, uint32.
packed_int_len(v) ==
    IF v < 128 THEN 1 ELSE IF v < 256 THEN 2 ELSE IF v < 65536 THEN 3 ELSE 5

\* msgpack: fixstr, str8, str16, str32.
packed_str_len(n) ==
    n + (IF n < 32 THEN 1 ELSE IF n < 256 THEN 2 ELSE IF n < 65536 THEN 3 ELSE 5)

\* int(time.time() * 1000) is above 2^32: a uint64, nine bytes.
TimestampLen == 9

RECURSIVE SumLens(_, _)
SumLens(lens, tags) ==
    IF tags = {} THEN 0
    ELSE LET t == CHOOSE x \in tags : TRUE
         IN  1 + lens[t] + SumLens(lens, tags \ {t})

\* len(serialize_envelope(envelope)): the fixmap header, each tag as a
\* fixint with its value, tag 6 with the integer it holds.
serialized_envelope_len(envelope) ==
    1 + SumLens(envelope.lens, DOMAIN envelope.lens)
      + 1 + packed_int_len(envelope.payload_bytes)

\* envelope[6] = 0; serialized = serialize_envelope(envelope);
\* envelope[6] = len(serialized)
stamp_payload_bytes(envelope) ==
    [envelope EXCEPT !.payload_bytes =
        serialized_envelope_len([envelope EXCEPT !.payload_bytes = 0])]

\* build_event_envelope: tags 1, 2 and 4 always, 3, 5 and 8 when given, 7
\* when the filtered data is not empty (here {"result": text}).
build_event_envelope(event_len, session_len, parent_len, agent_len, data) ==
    LET base == (1 :> packed_str_len(event_len)) @@ (2 :> packed_str_len(session_len))
                @@ (4 :> TimestampLen)
        parent == IF parent_len = None THEN base
                  ELSE (3 :> packed_str_len(parent_len)) @@ base
        agent == IF agent_len = None THEN parent
                 ELSE (5 :> packed_str_len(agent_len)) @@ parent
        raw == IF data = <<>> THEN agent
               ELSE (7 :> (1 + packed_str_len(6) + packed_str_len(data.result))) @@ agent
    IN  stamp_payload_bytes([lens |-> raw, payload_bytes |-> 0])

DataInputs == {<<>>} \cup { [result |-> n] : n \in (0..MaxDataLen) \cup {250, 70000} }

InitEnvelope ==
    /\ BufferFresh(0)
    /\ RouterAtRest
    /\ known_events = {}
    /\ acc = TurnAccumulator
    /\ cur = [op |-> "none", envelope |-> [lens |-> <<>>, payload_bytes |-> 0],
              serialized_len |-> 0]
    /\ hist = [ops |-> 0]

\* envelope = build_event_envelope(...); len(serialize_envelope(envelope))
BuildEnvelope(parent_len, agent_len, data) ==
    /\ LET envelope == build_event_envelope(9, 11, parent_len, agent_len, data)
       IN  cur' = [op |-> "build", envelope |-> envelope,
                   serialized_len |-> serialized_envelope_len(envelope)]
    /\ hist' = [ops |-> hist.ops + 1]
    /\ UNCHANGED <<buffer, enqLog, sentLog, evictLog, clearLog, bufOp, connected,
                   initialized, registry_published, turns_context_id,
                   everything_context_id, acc, known_events, pc, store>>

NextEnvelope ==
    /\ hist.ops = 0
    /\ \E parent_len \in {None, 10}, agent_len \in {None, 8}, data \in DataInputs :
           BuildEnvelope(parent_len, agent_len, data)

SpecEnvelope == InitEnvelope /\ [][NextEnvelope]_vars

\* --------------------------- SpecFlushRace: enqueue while flush is awaiting
\* flush taken one await at a time: it reads self._buffer[0], awaits
\* send_fn, and on return removes the leftmost record.  enqueue may run
\* while the send is awaited.  hist.removed lists the records popleft
\* removed.
NoRecord == BufferedRecord(None, 0, "", 0)

InitFlushRace ==
    /\ \E n \in 0..MaxCapacity : BufferFresh(n)
    /\ RouterAtRest
    /\ known_events = {}
    /\ acc = TurnAccumulator
    /\ cur = [pc |-> "idle", peeked |-> NoRecord, sent |-> 0]
    /\ hist = [flushes |-> 0, removed |-> <<>>]

RaceStep(b, c, h, accepted) ==
    /\ buffer' = b
    /\ cur' = c
    /\ hist' = h
    /\ sentLog' = sentLog \o accepted
    /\ UNCHANGED <<enqLog, evictLog, clearLog, bufOp>>
    /\ UNCHANGED <<connected, initialized, registry_published, turns_context_id,
                   everything_context_id, acc, known_events, pc, store>>

\* flush up to its first await: "while self._buffer", the read of
\* self._buffer[0] and the call of send_fn; an empty buffer returns 0.
FlushStart ==
    /\ cur.pc = "idle"
    /\ hist.flushes < MaxFlushes
    /\ RaceStep(buffer,
                IF buffer.items = <<>> THEN cur
                ELSE [pc |-> "awaiting", peeked |-> FlushPeek(buffer), sent |-> 0],
                [hist EXCEPT !.flushes = @ + 1], <<>>)

\* send_fn returned or raised: popleft and the counters, then the next
\* iteration up to its await, or the end of flush.
FlushSendDone(ok) ==
    /\ cur.pc = "awaiting"
    /\ LET b == FlushIteration(buffer, ok)
       IN  RaceStep(b,
                    IF ok /\ b.items # <<>>
                    THEN [pc |-> "awaiting", peeked |-> FlushPeek(b), sent |-> cur.sent + 1]
                    ELSE [cur EXCEPT !.pc = "idle",
                                     !.sent = IF ok THEN @ + 1 ELSE @],
                    IF ok THEN [hist EXCEPT !.removed = Append(@, Head(buffer.items))]
                    ELSE hist,
                    IF ok THEN <<cur.peeked>> ELSE <<>>)

NextFlushRace ==
    \/ \E in \in EnqueueInputs : BufEnqueue(in[1], in[2])
    \/ FlushStart
    \/ \E ok \in BOOLEAN : FlushSendDone(ok)

SpecFlushRace == InitFlushRace /\ [][NextFlushRace]_vars

\* ------------------------------------------------------------- properties
RECURSIVE IsSubseq(_, _)
IsSubseq(s, t) ==
    IF s = <<>> THEN TRUE
    ELSE IF t = <<>> THEN FALSE
    ELSE IF Head(s) = Head(t) THEN IsSubseq(Tail(s), Tail(t))
    ELSE IsSubseq(s, Tail(t))

InSeq(x, s) == \E i \in 1..Len(s) : s[i] = x
NoDup(s) == \A i, j \in 1..Len(s) : s[i] = s[j] => i = j

\* C1: every handle_event call, whatever the event, the router state and
\* the outcome of each store call, always has a next step until it returns,
\* and it returns HookResult("continue") without an exception leaving it.
C1_HandleEventNeverRaises ==
    /\ hist.last.call = "handle_event" =>
           hist.last.action = "continue" /\ ~hist.last.raised
    /\ cur.call = "handle_event" => ENABLED Next

\* C1 witness: a call returned "continue" although a store call failed
\* during it and a callback raised inside its try block.
C1_Witness ==
    /\ hist.last.call = "handle_event"
    /\ hist.last.action = "continue"
    /\ hist.last.fault
    /\ hist.last.exc

\* C2: every handle_event call that did not suppress its occurrence left
\* exactly one record for it, appended to the everything context or
\* enqueued in the retry buffer.
C2_EveryOccurrenceRecorded ==
    (hist.last.call = "handle_event" /\ ~hist.last.suppressed) =>
        hist.last.evStored + hist.last.evEnq = 1

\* C3: when orchestrator:complete is handled while the accumulator holds a
\* prompt, text or a tool call, each record of the flushed accumulation is
\* appended to the turns context or enqueued in the retry buffer.
C3_FlushedTurnsWrittenOrBuffered ==
    (/\ hist.last.call = "handle_event"
     /\ hist.last.event = ORCHESTRATOR_COMPLETE
     /\ hist.last.hadData) =>
        /\ hist.last.turnItems >= 1
        /\ hist.last.turnStored + hist.last.turnEnq = hist.last.turnItems

\* C4: when cleanup() has returned and every store call it made succeeded
\* (the store is reachable), no record is left in the retry buffer.
C4_BufferedDeliveredByCleanup ==
    (hist.last.call = "cleanup" /\ ~hist.last.fault) => size(buffer) = 0

\* The turns of one context among a sequence of records, in order.
RECURSIVE OfContext(_, _)
OfContext(records, context_id) ==
    IF records = <<>> THEN <<>>
    ELSE IF Head(records).context_id = context_id
    THEN <<Head(records).payload>> \o OfContext(Tail(records), context_id)
    ELSE OfContext(Tail(records), context_id)

\* C5: in each context the store received the records in the order in
\* which the router first attempted to write them.
C5_StoreOrderIsAttemptOrder ==
    \A c \in 1..store.contexts :
        IsSubseq(OfContext(store.turns, c), OfContext(hist.attempts, c))

\* C6: a handle_event call that started with the client disconnected and
\* met no failing store call (the store is reachable) leaves the client
\* connected: it re-attempted the connection.
C6_ReconnectOnLaterEvent ==
    (/\ hist.last.call = "handle_event"
     /\ hist.last.startedDisconnected
     /\ ~hist.last.fault) => connected

\* C7: after k enqueues on a fresh buffer of capacity N with no flush or
\* clear, the buffer holds the last min(k, N) enqueued records in enqueue
\* order, size = min(k, N), overflow_count = max(0, k - N), and every call
\* was counted.
C7_DropOldest ==
    (bufOp.nFlush = 0 /\ bufOp.nClear = 0) =>
        LET k == Len(enqLog)
            N == buffer.max_size
        IN  /\ size(buffer) = Min(k, N)
            /\ buffer.items = SubSeq(enqLog, k - Min(k, N) + 1, k)
            /\ buffer.overflow_count = Max(0, k - N)
            /\ buffer.total_enqueued = k

\* C7 witness: two records were evicted from a buffer of capacity >= 1.
C7_Witness ==
    /\ bufOp.nFlush = 0 /\ bufOp.nClear = 0
    /\ buffer.max_size >= 1
    /\ buffer.overflow_count >= 2

\* C8: flush sends oldest first; at the first failing send it stops without
\* raising, returns the number of records sent before it, has removed
\* exactly those, and keeps the failing record and all behind it in order,
\* so that a following flush with a sink that succeeds sends them in order.
C8_FlushStopsAtFirstFailure ==
    bufOp.op = "flush" =>
        LET pre == bufOp.before.items
            n == IF bufOp.failAt = 0 THEN Len(pre) ELSE bufOp.failAt - 1
            rest == SubSeq(pre, n + 1, Len(pre))
        IN  /\ ~bufOp.raised
            /\ bufOp.ret = n
            /\ bufOp.accepted = SubSeq(pre, 1, n)
            /\ buffer.items = rest
            /\ flush(buffer, 0).accepted = rest
            /\ flush(buffer, 0).buffer.items = <<>>

\* C8 witness: three records buffered, the sink failed on its second call.
C8_Witness ==
    /\ bufOp.op = "flush"
    /\ Len(bufOp.before.items) = 3
    /\ bufOp.failAt = 2
    /\ bufOp.ret = 1
    /\ size(buffer) = 2

C10_CountersNeverReset ==
    /\ bufOp.op \in {"flush", "clear"} =>
           /\ buffer.total_enqueued >= bufOp.before.total_enqueued
           /\ buffer.total_sent >= bufOp.before.total_sent
           /\ buffer.overflow_count >= bufOp.before.overflow_count
    /\ bufOp.op = "clear" =>
           /\ buffer.total_enqueued = bufOp.before.total_enqueued
           /\ buffer.total_sent = bufOp.before.total_sent
           /\ buffer.overflow_count = bufOp.before.overflow_count
           /\ size(buffer) = 0

\* C10 witness: clear on a non-empty buffer whose three counters are all
\* positive.
C10_Witness ==
    /\ bufOp.op = "clear"
    /\ bufOp.before.items # <<>>
    /\ bufOp.before.total_sent > 0
    /\ bufOp.before.overflow_count > 0

\* The richness order of the variants of one family: base < debug < raw.
Richness == <<"", ":debug", ":raw">>
RichnessOf(event_name) ==
    CHOOSE i \in 1..Len(Richness) : Richness[i] = event_name.suffix
Family(event_name) ==
    {e \in DedupKnown : e.ns = event_name.ns /\ e.stem = event_name.stem}
Registered(event_name) == Family(event_name) \cap known_events
Accepted(event_name) ==
    {hist.log[i].event : i \in {k \in 1..Len(hist.log) :
         /\ hist.log[k].ret
         /\ hist.log[k].event \in Family(event_name)}}

\* C11: for a family with a registered name, every should_process call
\* answered true exactly for the richest registered name of the family
\* (raw > debug > base), whatever calls, orchestrator:complete included,
\* came before it; the same name always got the same answer.
C11_RichestRegisteredOnly ==
    /\ \A i \in 1..Len(hist.log) :
           LET n == hist.log[i].event
           IN  (Cardinality(Family(n)) > 1 /\ Registered(n) # {}) =>
                   hist.log[i].ret =
                       (/\ n \in known_events
                        /\ \A f \in Registered(n) :
                               RichnessOf(f) <= RichnessOf(n))
    /\ \A i, j \in 1..Len(hist.log) :
           hist.log[i].event = hist.log[j].event =>
               hist.log[i].ret = hist.log[j].ret

\* C11 witness: all three llm:request names are registered; the raw name
\* was accepted, then orchestrator:complete was handled, then the base name
\* was rejected.
C11_Witness ==
    /\ {LLM_REQUEST, LLM_REQUEST_DEBUG, LLM_REQUEST_RAW} \subseteq known_events
    /\ Len(hist.log) = 3
    /\ hist.log[1] = [event |-> LLM_REQUEST_RAW, ret |-> TRUE]
    /\ hist.log[2].event = ORCHESTRATOR_COMPLETE
    /\ hist.log[3] = [event |-> LLM_REQUEST, ret |-> FALSE]

Signalled(h) == h.prompt # Null \/ h.texts # <<>> \/ h.tools > 0

\* C13: flush() returns the accumulated turn exactly when a prompt, at least
\* one text fragment or at least one tool call was accumulated since the
\* last flush; the accumulator is empty afterwards, with the
\* execution-ended flag cleared, so a flush issued right after returns
\* nothing.
C13_FlushReturnsIffData ==
    cur.op = "flush" =>
        /\ (cur.ret # <<>>) <=> Signalled(cur.seen)
        /\ cur.ret # <<>> => cur.ret = <<cur.before.current>>
        /\ acc = TurnAccumulator
        /\ acc_flush(acc).turn = <<>>
        /\ acc_flush(acc).acc = TurnAccumulator

\* C13 witness: a flush returned a turn that held only a tool call, and
\* left the accumulator empty.
C13_Witness ==
    /\ cur.op = "flush"
    /\ cur.ret # <<>>
    /\ cur.seen.tools > 0 /\ cur.seen.prompt = Null /\ cur.seen.texts = <<>>
    /\ acc = TurnAccumulator

\* The call_id a tool signal carries, Null when it carries none.
CallIdOf(data) ==
    IF Get(data, "tool_call_id") # Null THEN data.tool_call_id
    ELSE Get(data, "call_id")

\* The indices of the tool-call records the last call changed.
Completed ==
    {k \in 1..Len(acc.current.tool_calls) :
        k <= Len(cur.before.current.tool_calls)
        /\ acc.current.tool_calls[k] # cur.before.current.tool_calls[k]}

\* C14: a tool-finished signal that carries a call_id completes only a
\* pending record with an equal call_id, the most recently started one, and
\* never a record whose call_id differs.
C14_CompletesOnlyEqualCallId ==
    (cur.op = "tool_post" /\ CallIdOf(cur.data) # Null) =>
        \A k \in Completed :
            LET calls == cur.before.current.tool_calls
            IN  /\ calls[k].call_id = CallIdOf(cur.data)
                /\ \A j \in (k + 1)..Len(calls) :
                       ~(calls[j].call_id = CallIdOf(cur.data)
                         /\ ~calls[j].has_result)

\* The event names is_straggler is asked about: two of the llm: namespace
\* and two outside it.
StragglerNames == {LLM_REQUEST, LLM_REQUEST_DEBUG, TOOL_POST, ORCHESTRATOR_COMPLETE}

InLlmNamespace(event_name) == event_name.ns = "llm"

\* The answers of is_straggler: the flag for the llm: names, no for the
\* others.
StragglerAnswers ==
    \A event_name \in StragglerNames :
        is_straggler(acc, event_name)
            <=> (acc.execution_ended /\ InLlmNamespace(event_name))

\* C15 as stated: execution-ended sets the flag, every prompt-submitted
\* signal and every flush clears it, and is_straggler answers yes exactly
\* for llm: names while the flag is set.
C15_EveryPromptClears ==
    /\ cur.op = "execution_end" => acc.execution_ended
    /\ cur.op \in {"prompt_submit", "flush"} => ~acc.execution_ended
    /\ StragglerAnswers

\* C15 amended: execution-ended sets the flag; a prompt-submitted signal
\* that carries a prompt clears it and so does every flush; every other
\* signal, a prompt-submitted signal without a prompt included, leaves it
\* as it was; is_straggler answers yes exactly for llm: names while the
\* flag is set.
C15_PromptWithTextClears ==
    /\ cur.op = "execution_end" => acc.execution_ended
    /\ (cur.op = "prompt_submit" /\ Get(cur.data, "prompt") # Null)
           => ~acc.execution_ended
    /\ cur.op = "flush" => ~acc.execution_ended
    /\ (\/ cur.op \in {"tool_pre", "tool_post", "content_block_end"}
        \/ (cur.op = "prompt_submit" /\ Get(cur.data, "prompt") = Null))
           => acc.execution_ended = cur.before.execution_ended
    /\ StragglerAnswers

\* C15 witness: the flag was set and survived a prompt-submitted signal
\* without a prompt, so llm: names are still stragglers.
C15_Witness ==
    /\ cur.op = "prompt_submit"
    /\ Get(cur.data, "prompt") = Null
    /\ cur.before.execution_ended
    /\ is_straggler(acc, LLM_REQUEST)
    /\ ~is_straggler(acc, TOOL_POST)

\* The conversation records for what is accumulated now.
ItemsNow == to_conversation_items(acc.current, 1)

HasAssistantPart == hist.texts # <<>> \/ hist.tools > 0

\* C16: to_conversation_items yields a user-input record exactly when a
\* prompt was accumulated and an assistant record exactly when a text
\* fragment or a tool call was, so zero, one or two records; the user-input
\* record comes first and carries the prompt; the assistant record's text is
\* the fragments in the order they arrived.
C16_ItemsFollowSignals ==
    LET items == ItemsNow
        n_user == IF hist.prompt # Null THEN 1 ELSE 0
        n_assistant == IF HasAssistantPart THEN 1 ELSE 0
    IN  /\ Len(items) = n_user + n_assistant
        /\ hist.prompt # Null =>
               /\ items[1][1] = "user_input"
               /\ items[1][10] = <<hist.prompt>>
        /\ HasAssistantPart =>
               /\ items[Len(items)][1] = "assistant_turn"
               /\ items[Len(items)][11].text = hist.texts
               /\ Len(items[Len(items)][11].tool_calls) = hist.tools

\* C16 witness: a prompt and two different fragments were accumulated, the
\* second-listed fragment first, and two records result.
C16_Witness ==
    /\ hist.prompt = "hi"
    /\ hist.texts = <<"llo", "he">>
    /\ Len(ItemsNow) = 2

\* ---- end-to-end scenario (SpecScenario)
\* The handle_event calls among the calls received, in order.
RECURSIVE EventsOf(_)
EventsOf(log) ==
    IF log = <<>> THEN <<>>
    ELSE IF Head(log) = 0 THEN EventsOf(Tail(log))
    ELSE <<Head(log)>> \o EventsOf(Tail(log))

\* prompt:submit "hi", content_block:end "hello", orchestrator:complete
ScenarioCalls == <<1, 2, 5>>

\* The router received exactly the three occurrences and the last call
\* has returned.
ScenarioDone == pc = "idle" /\ EventsOf(hist.log) = ScenarioCalls

\* What the store holds for a context, decoded.
RECURSIVE Decoded(_)
Decoded(payloads) ==
    IF payloads = <<>> THEN <<>>
    ELSE <<unpackb(Head(payloads))>> \o Decoded(Tail(payloads))

Received(context_id) == Decoded(OfContext(store.turns, context_id))

IsContextMetadata(item) == 30 \in DOMAIN item

RECURSIVE WithoutMetadata(_)
WithoutMetadata(items) ==
    IF items = <<>> THEN <<>>
    ELSE IF IsContextMetadata(Head(items)) THEN WithoutMetadata(Tail(items))
    ELSE <<Head(items)>> \o WithoutMetadata(Tail(items))

\* One user-input record with "hi", then one assistant record with "hello".
IsScenarioTurn(items) ==
    /\ Len(items) = 2
    /\ items[1][1] = "user_input" /\ items[1][10] = <<"hi">>
    /\ items[2][1] = "assistant_turn" /\ items[2][11].text = <<"hello">>

\* One system record per occurrence, in order.
IsScenarioEvents(items) ==
    /\ Len(items) = Len(ScenarioCalls)
    /\ \A k \in 1..Len(ScenarioCalls) :
           /\ items[k][1] = "system"
           /\ items[k][12] = <<EventInputs[ScenarioCalls[k]].event,
                               EventInputs[ScenarioCalls[k]].data>>

InitPcs == {"connect", "publish", "create_turns", "create_everything",
            "meta_turns", "meta_everything"}

\* C18: once initialize() has succeeded, no later call enters it again: no
\* step creates a context or changes a context id, and a direct
\* initialize() call sends nothing, buffers nothing and leaves the
\* connection as it is.
C18_InitializeOnce ==
    [][initialized =>
          /\ initialized'
          /\ pc' \notin InitPcs
          /\ store'.contexts = store.contexts
          /\ turns_context_id' = turns_context_id
          /\ everything_context_id' = everything_context_id
          /\ (cur.call = "initialize" \/ cur'.call = "initialize") =>
                 /\ store' = store
                 /\ hist'.attempts = hist.attempts
                 /\ buffer' = buffer
                 /\ connected' = connected]_vars

\* C18 witness: a handle_event call initialized the router and stored its
\* occurrence; the direct initialize() call that followed is returning and
\* the store still has the two contexts.
C18_Witness ==
    /\ pc = "init_return"
    /\ cur.call = "initialize"
    /\ hist.last.call = "handle_event"
    /\ hist.last.evStored = 1
    /\ initialized
    /\ store.contexts = 2

\* initialize() has just ended, in a direct call or inside handle_event.
InitEnded == pc \in {"init_return", "route"}

BothContextsSet == turns_context_id # None /\ everything_context_id # None

\* The steps of initialize() whose exception reaches its except clause.
AbortingSteps == {"connect", "publish", "create_turns", "create_everything"}

\* C19 as stated: when any step of initialize() failed, a metadata write
\* included, initialized is false when it ends; an attempt in which no step
\* failed leaves the router initialized with both context ids set.
C19_AnyFailedStepAborts ==
    /\ (InitEnded /\ hist.failed # {}) => ~initialized
    /\ (InitEnded /\ hist.failed = {}) => (initialized /\ BothContextsSet)

\* C19 amended: when connect, the registry publish, or either
\* create-context failed, initialized is false when initialize() ends;
\* handle_event never goes on uninitialized without such a failure in its
\* own fresh attempt; an attempt in which none of these steps failed leaves
\* the router initialized with both context ids set, whether or not a
\* metadata write failed.
C19_FailedSetupStepAborts ==
    /\ (InitEnded /\ hist.failed \cap AbortingSteps # {}) => ~initialized
    /\ (pc = "route" /\ ~initialized) => hist.failed \cap AbortingSteps # {}
    /\ (InitEnded /\ hist.failed \cap AbortingSteps = {})
           => (initialized /\ BothContextsSet)

\* C19 witness: a direct initialize() failed after creating one context;
\* the handle_event call that followed made a fresh attempt with the store
\* answering, and the router is initialized with both ids set.
C19_Witness ==
    /\ pc = "route"
    /\ hist.log = <<0, 1>>
    /\ hist.failed = {}
    /\ store.contexts = 3
    /\ initialized
    /\ BothContextsSet

\* The positions inside cleanup().
CleanupPcs == {"cl_turn_write", "cl_flush", "cl_send", "cl_close"}

\* C20: cleanup() raises nothing and goes through its three steps whatever
\* the earlier ones met: from the turn writes it goes on to the buffer
\* flush, from the buffer flush to close, and close returns to the host
\* with the client disconnected; whenever a cleanup() has returned the
\* client is disconnected and the call reported no exception.
C20_CleanupAlwaysDisconnects ==
    /\ [](hist.cleanups > 0 =>
             (pc \in CleanupPcs \cup {"idle"}
              /\ (pc = "idle" => (~connected /\ hist.last.call = "cleanup"
                                  /\ ~hist.last.raised /\ ~hist.last.exc))))
    /\ [][/\ pc = "cl_turn_write" => pc' \in {"cl_turn_write", "cl_flush"}
          /\ pc = "cl_flush" => pc' \in {"cl_send", "cl_close"}
          /\ pc = "cl_send" => pc' \in {"cl_send", "cl_close"}
          /\ pc = "cl_close" =>
                (pc' = "idle" /\ ~connected' /\ hist'.cleanups = hist.cleanups + 1)
          /\ cur.call = "cleanup" => cur'.call \in {"cleanup", "none"}]_vars

\* C20 witness: a second cleanup() has returned; store calls failed on the
\* way, so records are left in the retry buffer; the client is
\* disconnected.
C20_Witness ==
    /\ pc = "idle"
    /\ hist.cleanups = 2
    /\ hist.last.call = "cleanup"
    /\ store.turns # <<>>
    /\ size(buffer) > 0
    /\ ~connected

\* ---- the TCP client (SpecClient)
NotConnectedError == "ConnectionError"

\* C21: create_context, fork_context, get_head and append_turn called on a
\* disconnected client raise the connection error, write no frame and leave
\* the request id counter where it was.
C21_DisconnectedRpcSendsNothing ==
    (cur.op \in RpcNames /\ ~cur.before.connected) =>
        /\ cur.raised
        /\ cur.exc = NotConnectedError
        /\ cur.request_id = cur.before.request_id
        /\ cur.o = "none"
        /\ ~connected

\* C21 witness: an RPC was called on a client that had been connected,
\* had used request ids, and was disconnected again.
C21_Witness ==
    /\ cur.op = "append_turn"
    /\ ~cur.before.connected
    /\ cur.request_id = 2
    /\ cur.raised

\* C22: a call that raised because the connection failed (refused, timed
\* out, reset or closed mid-read) leaves the client disconnected.
C22_ConnectionFailureDisconnects ==
    (/\ cur.raised
     /\ cur.o \in {"refused", "timeout", "lost"}
     /\ (cur.op \in RpcNames \/ (cur.op = "connect" /\ ~cur.before.connected)))
        => ~connected

\* C23: on a connected client, an RPC answered by an error frame or by a
\* reply too short for its fixed fields raises the protocol error, and the
\* client is still connected: the next RPC writes its frame.
C23_ProtocolErrorKeepsConnection ==
    (cur.op \in RpcNames /\ cur.before.connected /\ cur.o \in {"error", "short"}) =>
        /\ cur.raised
        /\ cur.exc = "CXDBProtocolError"
        /\ connected
        /\ cur.request_id = cur.before.request_id + 1
        /\ rpc_frames(connected) = 1

\* C23 witness: a create_context, the third request of the client, got a
\* short reply and the client is connected.
C23_Witness ==
    /\ cur.op = "create_context"
    /\ cur.o = "short"
    /\ cur.request_id = 3
    /\ connected

\* C24: close() raises nothing and leaves the client disconnected, in
\* every state, when the socket shutdown fails, and when called again.
C24_CloseIdempotent ==
    cur.op = "close" =>
        /\ ~cur.raised
        /\ cur.exc = "none"
        /\ ~connected
        /\ close(connected) = connected
        /\ \A shutdown_fails \in BOOLEAN : ~close_raises(shutdown_fails)
        /\ cur.request_id = cur.before.request_id

\* C24 witness: close() was called, with the socket shutdown failing, on a
\* client already closed after having been connected.
C24_Witness ==
    /\ cur.op = "close"
    /\ cur.o = "shutdown_fails"
    /\ ~cur.before.connected
    /\ cur.request_id > 0
    /\ ~connected

\* ---- provider metrics (SpecMetrics)
\* The count a token field of usage stands for: 0 when absent or None.
Counted(usage, key) ==
    IF key \in DOMAIN usage /\ usage[key] # NoTokens THEN usage[key] ELSE 0

MetricsNow == acc.current.metrics[1]

\* C25: after a provider:response that carries usage the recorded metrics
\* have total_input_tokens = input + cache_read + cache_creation and
\* total_tokens = total_input_tokens + output, every absent or None field
\* counting 0; 5, 1000, 200 and 500 give 1205 and 1705.
C25_TokenTotals ==
    (cur.op = "provider_response" /\ DOMAIN cur.data.usage # {"type"}) =>
        LET usage == cur.data.usage
        IN  /\ acc.current.metrics # <<>>
            /\ MetricsNow.total_input_tokens =
                   Counted(usage, "input_tokens")
                   + Counted(usage, "cache_read_input_tokens")
                   + Counted(usage, "cache_creation_input_tokens")
            /\ MetricsNow.total_tokens =
                   MetricsNow.total_input_tokens + Counted(usage, "output_tokens")
            /\ (usage = [type |-> "dict", input_tokens |-> 5,
                         cache_read_input_tokens |-> 1000,
                         cache_creation_input_tokens |-> 200,
                         output_tokens |-> 500])
                   => (MetricsNow.total_input_tokens = 1205
                       /\ MetricsNow.total_tokens = 1705)

\* C25 witness: a usage with no input_tokens, a None cache_read, 200 cache
\* creation tokens and 500 output tokens was recorded as 200 and 700.
C25_Witness ==
    /\ cur.op = "provider_response"
    /\ cur.data.usage = [type |-> "dict", cache_read_input_tokens |-> NoTokens,
                         cache_creation_input_tokens |-> 200,
                         output_tokens |-> 500]
    /\ MetricsNow.total_input_tokens = 200
    /\ MetricsNow.total_tokens = 700

\* ---- wire frames (SpecFrame)
\* C26: decoding an encoded frame gives back (msg_type, flags, request_id,
\* payload); decoding fewer than 16 bytes, or a frame with fewer payload
\* bytes than its header declares, raises.
C26_FrameRoundTrip ==
    /\ cur.op = "roundtrip" =>
           /\ Len(cur.frame) = FRAME_HEADER_SIZE + Len(cur.payload)
           /\ ~cur.decoded.raised
           /\ cur.decoded.value =
                  <<cur.msg_type, cur.flags, cur.request_id, cur.payload>>
    /\ cur.op = "prefix" => cur.decoded.raised
    /\ Len(cur.data) < FRAME_HEADER_SIZE => (cur.op = "none" \/ cur.decoded.raised)

\* C26 witness: a frame with a two-byte payload lost its last byte and
\* decoding it raised, although the 16 bytes of the header were there.
C26_Witness ==
    /\ cur.op = "prefix"
    /\ Len(cur.payload) = 2
    /\ Len(cur.data) = FRAME_HEADER_SIZE + 1
    /\ cur.request_id = 16777217
    /\ cur.decoded.raised

\* ---- payload serialization (SpecSerialize)

\* C27: two payloads that are equal as mappings, nested mappings included,
\* serialize to the same bytes and the same hash whatever their insertion
\* orders.
C27_DeterministicSerialization ==
    cur.op = "serialize" =>
        /\ cur.serialized1.bytes = cur.serialized2.bytes
        /\ cur.serialized1.hash = cur.serialized2.hash

\* ---- the router's context ids (Spec)

\* C28 as stated: while initialized is false both context ids are null.
C28_IdsNullUntilInitialized ==
    ~initialized => (turns_context_id = None /\ everything_context_id = None)

\* C28 amended: both ids are null until a create-context call of
\* initialize() has succeeded and both are set whenever initialized is true;
\* the everything id is never set without the turns id, and while
\* initialized is false it is set only inside the attempt that is writing
\* the two metadata records.  A turns id can stay set, with initialized
\* false, after an attempt whose second create-context call failed.
C28_IdsSetByCreateContext ==
    /\ initialized => BothContextsSet
    /\ store.contexts = 0 =>
           (turns_context_id = None /\ everything_context_id = None)
    /\ everything_context_id # None => turns_context_id # None
    /\ (~initialized /\ everything_context_id # None) =>
           pc \in {"meta_turns", "meta_everything"}

\* initialize() ended after its second create-context call failed: the
\* router is idle and uninitialized and holds a turns id only.
C28_Witness ==
    /\ pc = "idle" /\ ~initialized
    /\ turns_context_id # None /\ everything_context_id = None

\* C29: in each context the first record the store received is that
\* context's metadata record, whatever writes failed.
C29_MetadataFirst ==
    \A c \in 1..store.contexts :
        Received(c) # <<>> => IsContextMetadata(Received(c)[1])

\* ---- the registry publish (SpecLifecycle)

SuppressedOccurrence ==
    /\ pc = "route"
    /\ \/ ~should_process(known_events, cur.event)
       \/ (cur.event.ns = "llm" /\ acc.execution_ended)

GotDuration ==
    /\ cur.op = "provider_response"
    /\ ~no_usage(cur.data)
    /\ acc.current.metrics # <<>>
    /\ acc.current.metrics[1].has_duration

\* C32: a provider:response gets a duration only if a provider:request
\* came after the previous provider:response.
C32_DurationOneShot == GotDuration => cur.seen.fresh_request

\* ---- requests in flight (SpecWire)

\* C33: the client writes a request frame only when no earlier request of
\* its own is unanswered and no call is between its write and its read.
C33_OneRequestInFlight ==
    [][cur'.request_id > cur.request_id /\ cur.request_id > 0 =>
           /\ cur.unanswered = <<>>
           /\ \A t \in Tasks : cur.task[t].pc = "idle"]_vars

\* C37: when the calls are made one after another, the reply a call
\* returns is the server's reply to that call's own request, also after
\* calls that timed out.
C37_ReplyMatchesRequest ==
    ~hist.overlapped =>
        \A t \in Tasks :
            cur.task[t].outcome = "reply" => cur.task[t].reply = cur.task[t].request_id

\* ---- piggyback retry (Spec)

\* C34: when handle_event comes to write the occurrence's record with the
\* client connected and no store call of this handle_event call has
\* failed, the Retry Buffer is empty: the queued records were flushed
\* first.
C34_PiggybackFlush ==
    (/\ pc = "everything"
     /\ cur.call = "handle_event"
     /\ connected
     /\ everything_context_id # None
     /\ ~cur.fault)
        => size(buffer) = 0

\* ---- the envelope's size stamp (SpecEnvelope)

\* C35: the size field of a built envelope equals the length of the
\* envelope serialized with that value in place.
C35_SizeStampIsFinalLength ==
    cur.op = "build" => cur.envelope.payload_bytes = cur.serialized_len

\* ---- replayed records (Spec)

\* C36: a record the store received, written at once or replayed from the
\* Retry Buffer, carries the context id and payload of a write attempt of
\* the router and the declared type id and type version of that attempt,
\* which is version 3 at every _write_turn call.
C36_ReplayKeepsDeclaredType ==
    \A i \in 1..Len(store.turns) :
        /\ \E j \in 1..Len(hist.attempts) :
               /\ hist.attempts[j].context_id = store.turns[i].context_id
               /\ hist.attempts[j].payload = store.turns[i].payload
        /\ store.turns[i].declared_type_id = CONVERSATION_ITEM
        /\ store.turns[i].declared_type_version = ITEM_TYPE_VERSION

\* ---- the buffer's counters (SpecBuffer)

\* C38: as long as clear was not called, the buffer holds at most max_size
\* records and every enqueued record is counted once: still queued, sent,
\* or dropped on overflow.
C38_CountersConserved ==
    bufOp.nClear = 0 =>
        /\ size(buffer) <= buffer.max_size
        /\ buffer.total_enqueued
               = size(buffer) + buffer.total_sent + buffer.overflow_count

\* C38 witness: with no clear, records were sent, one was dropped on
\* overflow and one is still queued after a flush that stopped part-way.
C38_Witness ==
    /\ bufOp.nClear = 0
    /\ bufOp.op = "flush" /\ bufOp.failAt > 0
    /\ buffer.total_sent > 0
    /\ buffer.overflow_count > 0
    /\ size(buffer) > 0

\* ---- enqueue during flush (SpecFlushRace)

\* C39: the records flush removed from the buffer are exactly the records
\* send_fn accepted, in order, also when enqueue ran during a send.
C39_FlushRemovesWhatWasSent == hist.removed = sentLog

\* ---- contexts created over a router's lifetime (SpecRetry)

HeldIds == {turns_context_id, everything_context_id}

TargetsOf(records) == {records[i].context_id : i \in 1..Len(records)}

\* C40 as stated: the store never holds more than two contexts of the
\* router, and once it is initialized every record it tried to write or
\* still buffers targets one of the two ids it holds.
C40_AtMostTwoContexts ==
    /\ store.contexts <= 2
    /\ initialized =>
           /\ TargetsOf(hist.attempts) \subseteq HeldIds
           /\ TargetsOf(buffer.items) \subseteq HeldIds

====
